---- MODULE Spec2Model ----
(***************************************************************************)
(* Conversation role arbitration and resilient tool invocation of the      *)
(* chatwoot-ai repository: the circuit breaker, the sliding-window rate    *)
(* limiter, the reliability wrapper, the response cache used by the role   *)
(* agents, and the conversation context manager.                           *)
(*                                                                         *)
(* Each component has its own specification over the shared variables     *)
(* (SpecCB, SpecRL, SpecWrap, SpecAgent, SpecCtx, SpecCache, SpecUtil,     *)
(* SpecPipe, SpecStore, SpecDual, SpecApi) and the interleavings of        *)
(* concurrent callers have theirs (SpecRLRace, SpecCacheRace,              *)
(* SpecCtxRace); a specification leaves the variables of the other         *)
(* components at their initial values.                                     *)
(***************************************************************************)
EXTENDS Integers, Sequences, FiniteSets, TLC

VARIABLES
    now,        \* the wall clock read by time.time()
    breaker,    \* CircuitBreaker: [state, failures, last_failure_time]
    inside,     \* callers currently inside a `with breaker:` block
    cbLog,      \* events of the breaker's callers, oldest first
    opCalls,    \* how often the guarded operation was invoked
    requests,   \* RateLimiter.requests: the deque of admitted time stamps
    rlLog,      \* every allow_request call: [at, allowed], oldest first
    wcb,        \* the wrapper's circuit breaker
    wpc,        \* where the wrapped call stands
    attempt,    \* the loop variable of the wrapped call
    wrapError,  \* the exception being handled by the wrapped call
    wrapTrace,  \* what the current wrapped call did, oldest first
    wrapResult, \* how the last wrapped call ended
    wrapCount,  \* wrapped calls started
    cache,      \* semantic_cache.cache: key -> [value, expiry]
    lastCall,   \* the last process_message call of an agent and its result
    firstCall,  \* per (role, message, context): its last generator call
    agentCalls, \* process_message calls made
    contexts,   \* ConversationContextManager.contexts: id -> context
    lastUpdate, \* the last message given to the context manager
    lastOp,     \* the last operation made on the cache directly
    lastSet,    \* per key: the value and time of its last set since a clear
    cacheOps,   \* operations made on the cache directly
    ucontexts,  \* utils ConversationContextManager.contexts: id -> context
    lastU,      \* the last operation on the utils context manager
    lastPipe,   \* the last delivery through process_message, and the one
                \* before it when that was the operation just before
    uOps,       \* operations made on the utils manager and the pipeline
    circuit,    \* api_circuit_breaker.CircuitBreaker.state
    calling,    \* callers of APIReliabilityWrapper.call inside the function
    callLog,    \* events of APIReliabilityWrapper.call, oldest first
    rlThreads,  \* per thread inside allow_request: where it is, its time
    getter,     \* the thread inside SemanticCache.get: where it is, its entry
    race,       \* two overlapping update_context calls on one conversation
    lastDual,   \* the last DualRoleAgent.process_message call and its result
    dualCalls,  \* DualRoleAgent.process_message calls made
    disk,       \* contexts.json of the utils manager's storage_path
    lastSave    \* how the saves of the last operation on the store went

cbVars == <<breaker, inside, cbLog, opCalls>>

rlVars == <<requests, rlLog>>

wrapVars == <<wcb, wpc, attempt, wrapError, wrapTrace, wrapResult, wrapCount>>

agentVars == <<cache, lastCall, firstCall, agentCalls>>

ctxVars == <<contexts, lastUpdate>>

scVars == <<lastOp, lastSet, cacheOps>>

uVars == <<ucontexts, lastU, lastPipe, uOps>>

apiVars == <<circuit, calling, callLog>>

raceVars == <<rlThreads, getter, race>>

dualVars == <<lastDual, dualCalls>>

storeVars == <<disk, lastSave>>

\* What the actions of one component leave alone.
cbRest == <<rlVars, wrapVars, agentVars, ctxVars, scVars, uVars, apiVars, raceVars,
      dualVars, storeVars>>
rlRest == <<cbVars, wrapVars, agentVars, ctxVars, scVars, uVars, apiVars, raceVars,
      dualVars, storeVars>>
wrapRest ==
    <<cbVars, rlLog, agentVars, ctxVars, scVars, uVars, apiVars, raceVars,
      dualVars, storeVars>>
agentRest ==
    <<cbVars, rlVars, wrapVars, ctxVars, scVars, uVars, apiVars, raceVars,
      dualVars, storeVars>>
ctxRest ==
    <<cbVars, rlVars, wrapVars, agentVars, scVars, uVars, apiVars, raceVars,
      dualVars, storeVars>>
scRest ==
    <<cbVars, rlVars, wrapVars, lastCall, firstCall, agentCalls, ctxVars, uVars,
      apiVars, raceVars,
      dualVars, storeVars>>
uRest ==
    <<cbVars, rlVars, wrapVars, lastCall, firstCall, agentCalls, ctxVars, scVars,
      apiVars, raceVars,
      dualVars, storeVars>>
apiRest ==
    <<cbVars, rlVars, wrapVars, agentVars, ctxVars, scVars, uVars, raceVars,
      dualVars, storeVars>>
rlRaceRest ==
    <<cbVars, wrapVars, agentVars, ctxVars, scVars, uVars, apiVars, getter, race,
      dualVars, storeVars>>
cacheRaceRest ==
    <<cbVars, rlVars, wrapVars, lastCall, firstCall, agentCalls, ctxVars, uVars,
      apiVars, rlThreads, race, lastOp, lastSet,
      dualVars, storeVars>>
ctxRaceRest ==
    <<cbVars, rlVars, wrapVars, agentVars, lastUpdate, scVars, uVars, apiVars,
      rlThreads, getter,
      dualVars, storeVars>>
dualRest ==
    <<cbVars, rlVars, wrapVars, lastCall, firstCall, agentCalls, ctxVars, scVars,
      uVars, apiVars, raceVars, storeVars>>
storeRest ==
    <<cbVars, rlVars, wrapVars, lastCall, firstCall, agentCalls, ctxVars, scVars,
      apiVars, raceVars, dualVars>>

vars == <<now, breaker, inside, cbLog, opCalls, requests, rlLog,
          wcb, wpc, attempt, wrapError, wrapTrace, wrapResult, wrapCount,
          cache, lastCall, firstCall, agentCalls, contexts, lastUpdate,
          lastOp, lastSet, cacheOps, ucontexts, lastU, lastPipe, uOps,
          circuit, calling, callLog, rlThreads, getter, race,
          lastDual, dualCalls, disk, lastSave>>

(***************************************************************************)
(* Bounds of the model.                                                    *)
(***************************************************************************)
MaxTime == 7        \* the clock stops here
MaxCalls == 5       \* calls made on the circuit breaker
NCallers == 2       \* concurrent users of one circuit breaker
FailThreshold == 2  \* CircuitBreaker(fail_threshold=...)
ResetTimeout == 2   \* CircuitBreaker(reset_timeout=...)
Limit == 2          \* RateLimiter(limit=...)
Window == 2         \* RateLimiter(window=...)
MaxRequests == 5    \* allow_request calls made on the rate limiter
MaxRetries == 2     \* APIReliabilityWrapper(max_retries=...)
RetryDelay == 1     \* APIReliabilityWrapper(retry_delay=...)
MaxWrapCalls == 3   \* calls made through the wrapper
MaxWrapTime == 10   \* the clock of the wrapper stops here
ttl == 2            \* SemanticCache(ttl=...)
MaxAgentTime == 4   \* the clock of the agents stops here
MaxAgentCalls == 2  \* process_message calls made on the agents
MaxCacheOps == 4    \* operations made on the cache directly
MaxCacheTime == 5   \* the clock of the cache stops here
MaxUtilOps == 3     \* operations made on the utils manager and the pipeline
MaxUtilTime == 4    \* the clock of the pipeline stops here
MaxApiCalls == 6    \* calls made through APIReliabilityWrapper.call
MaxRaceTime == 4    \* the clock of the threads inside allow_request stops here
MaxDualCalls == 2   \* process_message calls made on the dual-role agent
MaxMessages == 3    \* messages of one conversation
MaxCtxTime == 2     \* the clock of the context manager stops here

None == -1          \* Python's None for a time stamp

Callers == 1..NCallers

(***************************************************************************)
(* The clock.  time.time() never returns 0, so the clock starts at 1.      *)
(***************************************************************************)
Tick ==
    /\ now < MaxTime
    /\ now' = now + 1

(***************************************************************************)
(* reliability/circuit_breaker.py                                          *)
(***************************************************************************)
CircuitBreakerInit ==
    [state |-> "closed", failures |-> 0, last_failure_time |-> None]

\* __enter__ mutated: the breaker closes once reset_timeout is reached.
CircuitBreakerEnterAtTimeout(cb, t) ==
    IF cb.state = "open"
    THEN IF cb.last_failure_time # None /\ t - cb.last_failure_time >= ResetTimeout
         THEN [cb |-> [cb EXCEPT !.state = "closed", !.failures = 0],
               raised |-> FALSE, reset |-> TRUE]
         ELSE [cb |-> cb, raised |-> TRUE, reset |-> FALSE]
    ELSE [cb |-> cb, raised |-> FALSE, reset |-> FALSE]

\* __enter__: the breaker after the call and whether the call raised.
CircuitBreakerEnter(cb, t) ==
    IF cb.state = "open"
    THEN IF cb.last_failure_time # None /\ t - cb.last_failure_time > ResetTimeout
         THEN [cb |-> [cb EXCEPT !.state = "closed", !.failures = 0],
               raised |-> FALSE, reset |-> TRUE]
         ELSE [cb |-> cb, raised |-> TRUE, reset |-> FALSE]
    ELSE [cb |-> cb, raised |-> FALSE, reset |-> FALSE]

\* __exit__ mutated: the threshold comparison is strict.
CircuitBreakerExitStrict(cb, failed, t) ==
    IF failed
    THEN [cb EXCEPT !.failures = cb.failures + 1,
                    !.last_failure_time = t,
                    !.state = IF cb.failures + 1 > FailThreshold
                              THEN "open" ELSE cb.state]
    ELSE cb

\* __exit__: failed is `exc_type is not None`.
CircuitBreakerExit(cb, failed, t) ==
    IF failed
    THEN [cb EXCEPT !.failures = cb.failures + 1,
                    !.last_failure_time = t,
                    !.state = IF cb.failures + 1 >= FailThreshold
                              THEN "open" ELSE cb.state]
    ELSE cb

is_open(cb) == cb.state = "open"

(***************************************************************************)
(* A caller runs `with breaker: operation()`.  __enter__ and __exit__ are  *)
(* separate steps: the operation runs between them, and other callers of   *)
(* the same breaker may run meanwhile.  When __enter__ raises, the body    *)
(* and __exit__ do not run.                                                *)
(***************************************************************************)
EnterEvents == {"admitted", "probe", "rejected"}

NumEntered == Cardinality({i \in DOMAIN cbLog : cbLog[i] \in EnterEvents})

CBEnter(c) ==
    /\ c \notin inside
    /\ NumEntered < MaxCalls
    /\ LET r == CircuitBreakerEnter(breaker, now) IN
         /\ breaker' = r.cb
         /\ IF r.raised
            THEN /\ cbLog' = Append(cbLog, "rejected")
                 /\ UNCHANGED <<inside, opCalls>>
            ELSE /\ cbLog' = Append(cbLog, IF r.reset THEN "probe" ELSE "admitted")
                 /\ inside' = inside \cup {c}
                 /\ opCalls' = opCalls + 1
    /\ UNCHANGED <<now, cbRest>>

CBExitOk(c) ==
    /\ c \in inside
    /\ breaker' = CircuitBreakerExit(breaker, FALSE, now)
    /\ inside' = inside \ {c}
    /\ cbLog' = Append(cbLog, "ok")
    /\ UNCHANGED <<now, opCalls, cbRest>>

CBExitFail(c) ==
    /\ c \in inside
    /\ breaker' = CircuitBreakerExit(breaker, TRUE, now)
    /\ inside' = inside \ {c}
    /\ cbLog' = Append(cbLog, "fail")
    /\ UNCHANGED <<now, opCalls, cbRest>>

CBTick == Tick /\ UNCHANGED <<cbVars, cbRest>>

(***************************************************************************)
(* Reading the breaker's event log.                                        *)
(***************************************************************************)
Count(s, e) == Cardinality({i \in DOMAIN s : s[i] = e})

LastEvent(s) == IF s = <<>> THEN "none" ELSE s[Len(s)]

\* Index of the last call admitted because the reset timeout had elapsed.
LastProbe ==
    LET P == {i \in DOMAIN cbLog : cbLog[i] = "probe"} IN
    IF P = {} THEN 0 ELSE CHOOSE i \in P : \A j \in P : j <= i

\* The events since the breaker was constructed or last closed by a probe.
SinceClosed == SubSeq(cbLog, LastProbe + 1, Len(cbLog))

IsOutcome(e) == e \in {"ok", "fail"}

Outcomes(s) == SelectSeq(s, IsOutcome)

\* Length of the run of failed calls that ends the sequence of outcomes.
RECURSIVE TrailingFails(_)
TrailingFails(s) ==
    IF s = <<>> \/ s[Len(s)] # "fail" THEN 0
    ELSE 1 + TrailingFails(SubSeq(s, 1, Len(s) - 1))

\* Some FailThreshold outcomes in a row are failures.
HasFailRun(s) ==
    \E i \in 1..Len(s) :
        /\ i + FailThreshold - 1 <= Len(s)
        /\ \A j \in i..(i + FailThreshold - 1) : s[j] = "fail"

\* Fewer than N failures since the breaker last closed: it is closed.
C1_ClosedBelowThreshold ==
    Count(SinceClosed, "fail") < FailThreshold => breaker.state = "closed"

C1_OpenAtThreshold ==
    TrailingFails(Outcomes(SinceClosed)) >= FailThreshold => is_open(breaker)

C1_OpenRejects ==
    (/\ is_open(breaker)
     /\ breaker.last_failure_time # None
     /\ now - breaker.last_failure_time < ResetTimeout
     /\ Len(cbLog') = Len(cbLog) + 1
     /\ LastEvent(cbLog') \in EnterEvents)
    => (/\ LastEvent(cbLog') = "rejected"
        /\ opCalls' = opCalls
        /\ inside' = inside
        /\ is_open(breaker'))

(***************************************************************************)
(* C1: with failThreshold = N, the breaker is still closed after fewer     *)
(* than N failed calls, it is open after N consecutive failed calls, and   *)
(* a call made while it is open and less than resetTimeout after the last  *)
(* failure is rejected without the operation being invoked.                *)
(***************************************************************************)
C1_Theorem ==
    /\ [](C1_ClosedBelowThreshold /\ C1_OpenAtThreshold)
    /\ [][C1_OpenRejects]_vars

C1_Witness ==
    /\ is_open(breaker)
    /\ TrailingFails(Outcomes(SinceClosed)) >= FailThreshold
    /\ LastEvent(cbLog) = "rejected"
    /\ now - breaker.last_failure_time < ResetTimeout

(***************************************************************************)
(* C2: once resetTimeout has elapsed on an open breaker exactly one call   *)
(* is let through as a probe; until a call has succeeded every other call  *)
(* is rejected.                                                            *)
(***************************************************************************)
C2_SingleProbe ==
    (LastProbe > 0 /\ Count(SinceClosed, "ok") = 0)
        => Count(SinceClosed, "admitted") = 0

(***************************************************************************)
(* C9: a successful call resets the failure count to 0, so the breaker     *)
(* opens only after failThreshold failures with no success in between.     *)
(***************************************************************************)
C9_SuccessResets ==
    /\ LastEvent(cbLog) = "ok" => breaker.failures = 0
    /\ is_open(breaker) => HasFailRun(Outcomes(SinceClosed))

C26_EnterStep ==
    (/\ is_open(breaker)
     /\ Len(cbLog') = Len(cbLog) + 1
     /\ LastEvent(cbLog') \in EnterEvents)
    => /\ LastEvent(cbLog') = "rejected"
            <=> now - breaker.last_failure_time <= ResetTimeout
       /\ LastEvent(cbLog') = "rejected" => breaker' = breaker
       /\ LastEvent(cbLog') # "rejected" =>
            (breaker'.state = "closed" /\ breaker'.failures = 0)

RECURSIVE Prune(_, _)
Prune(q, t) ==
    IF q # <<>> /\ Head(q) < t - Window THEN Prune(Tail(q), t) ELSE q

\* allow_request mutated: the limit comparison is strict.
AllowRequestStrict(q, t) ==
    LET p == Prune(q, t) IN
    IF Len(p) > Limit
    THEN [requests |-> p, allowed |-> FALSE]
    ELSE [requests |-> Append(p, t), allowed |-> TRUE]

\* allow_request mutated: old time stamps are never removed.
AllowRequestNoPrune(q, t) ==
    IF Len(q) >= Limit
    THEN [requests |-> q, allowed |-> FALSE]
    ELSE [requests |-> Append(q, t), allowed |-> TRUE]

\* allow_request: the deque after the call and the value returned.
AllowRequest(q, t) ==
    LET p == Prune(q, t) IN
    IF Len(p) >= Limit
    THEN [requests |-> p, allowed |-> FALSE]
    ELSE [requests |-> Append(p, t), allowed |-> TRUE]

RLAllowRequest ==
    /\ Len(rlLog) < MaxRequests
    /\ LET r == AllowRequest(requests, now) IN
         /\ requests' = r.requests
         /\ rlLog' = Append(rlLog, [at |-> now, allowed |-> r.allowed])
    /\ UNCHANGED <<now, rlRest>>

RLTick == Tick /\ UNCHANGED <<rlVars, rlRest>>

\* Calls before call k that were admitted at or after time t.
AdmittedBefore(k, t) ==
    Cardinality({j \in 1..(k - 1) : rlLog[j].allowed /\ rlLog[j].at >= t})

\* Calls admitted in the interval [t, t + Window].
AdmittedIn(t) ==
    Cardinality({j \in DOMAIN rlLog :
                    rlLog[j].allowed /\ rlLog[j].at >= t /\ rlLog[j].at <= t + Window})

(***************************************************************************)
(* C3: with limit = K and window = W the queue never holds more than K     *)
(* time stamps after a call, a call is admitted exactly when fewer than K  *)
(* calls were admitted in the window ending at it, and so no interval of   *)
(* length W holds more than K admitted calls.                              *)
(***************************************************************************)
C3_Theorem ==
    /\ Len(requests) <= Limit
    /\ \A k \in DOMAIN rlLog :
          rlLog[k].allowed <=> AdmittedBefore(k, rlLog[k].at - Window) < Limit
    /\ \A t \in 1..MaxTime : AdmittedIn(t) <= Limit

C3_Witness ==
    /\ Len(rlLog) > Limit
    /\ ~ rlLog[Len(rlLog)].allowed
    /\ \A k \in 1..Limit : rlLog[k].allowed
    /\ \E k \in DOMAIN rlLog : rlLog[k].allowed /\ rlLog[k].at > 1 + Window

\* The time stamps of a deque.
Stamps(q) == {q[i] : i \in DOMAIN q}

C30_CallStep ==
    Len(rlLog') = Len(rlLog) + 1 =>
        LET call == rlLog'[Len(rlLog')] IN
        /\ ~ call.allowed =>
              /\ Stamps(requests') \subseteq Stamps(requests)
              /\ Len(requests') <= Len(requests)
        /\ (requests # <<>> /\ call.at - Head(requests) > Window) => call.allowed

(***************************************************************************)
(* C30: a rate limiter that rejects recovers: a rejected allow_request     *)
(* adds no time stamp to the window, and an allow_request made more than   *)
(* window after the oldest recorded time stamp is admitted.                *)
(***************************************************************************)
C30_Theorem == [][C30_CallStep]_vars

\* After a rejection at a full window, a call made more than window after
\* the oldest time stamp was admitted.
C30_Witness ==
    /\ Len(rlLog) >= Limit + 2
    /\ rlLog[Len(rlLog)].allowed
    /\ ~ rlLog[Len(rlLog) - 1].allowed
    /\ rlLog[Len(rlLog)].at > rlLog[Len(rlLog) - Limit - 1].at + Window

(***************************************************************************)
(* allow_request called from several threads.  No lock guards the deque,   *)
(* so a thread may be switched out between any two of: reading the clock,  *)
(* testing the head of the deque, popleft, testing the length, append.     *)
(***************************************************************************)
IdleThread == [pc |-> "idle", current_time |-> None]

InFlight == {c \in Callers : rlThreads[c].pc # "idle"}

\* current_time = time.time()
RaceRead(c) ==
    /\ rlThreads[c].pc = "idle"
    /\ Len(rlLog) + Cardinality(InFlight) < MaxRequests
    /\ rlThreads' = [rlThreads EXCEPT ![c] = [pc |-> "loop", current_time |-> now]]
    /\ UNCHANGED <<now, requests, rlLog, rlRaceRest>>

\* while self.requests and self.requests[0] < current_time - self.window
RaceLoopTest(c) ==
    /\ rlThreads[c].pc = "loop"
    /\ rlThreads' = [rlThreads EXCEPT ![c].pc =
            IF requests # <<>> /\ Head(requests) < rlThreads[c].current_time - Window
            THEN "pop" ELSE "check"]
    /\ UNCHANGED <<now, requests, rlLog, rlRaceRest>>

\* self.requests.popleft(): IndexError when another thread emptied the deque
RacePop(c) ==
    /\ rlThreads[c].pc = "pop"
    /\ IF requests = <<>>
       THEN /\ rlThreads' = [rlThreads EXCEPT ![c] = IdleThread]
            /\ rlLog' = Append(rlLog, [at |-> rlThreads[c].current_time,
                                       allowed |-> FALSE])
            /\ UNCHANGED requests
       ELSE /\ requests' = Tail(requests)
            /\ rlThreads' = [rlThreads EXCEPT ![c].pc = "loop"]
            /\ UNCHANGED rlLog
    /\ UNCHANGED <<now, rlRaceRest>>

\* if len(self.requests) >= self.limit: return False
RaceCheck(c) ==
    /\ rlThreads[c].pc = "check"
    /\ IF Len(requests) >= Limit
       THEN /\ rlThreads' = [rlThreads EXCEPT ![c] = IdleThread]
            /\ rlLog' = Append(rlLog, [at |-> rlThreads[c].current_time,
                                       allowed |-> FALSE])
       ELSE /\ rlThreads' = [rlThreads EXCEPT ![c].pc = "append"]
            /\ UNCHANGED rlLog
    /\ UNCHANGED <<now, requests, rlRaceRest>>

\* self.requests.append(current_time); return True
RaceAppend(c) ==
    /\ rlThreads[c].pc = "append"
    /\ requests' = Append(requests, rlThreads[c].current_time)
    /\ rlLog' = Append(rlLog, [at |-> rlThreads[c].current_time, allowed |-> TRUE])
    /\ rlThreads' = [rlThreads EXCEPT ![c] = IdleThread]
    /\ UNCHANGED <<now, rlRaceRest>>

RaceTick ==
    /\ now < MaxRaceTime
    /\ now' = now + 1
    /\ UNCHANGED <<requests, rlLog, rlThreads, rlRaceRest>>

(***************************************************************************)
(* C24: when several callers run allow_request on one rate limiter at the  *)
(* same time, in every interleaving no window holds more than limit        *)
(* admitted requests.                                                      *)
(***************************************************************************)
C24_AtMostLimit ==
    /\ Len(requests) <= Limit
    /\ \A t \in 1..MaxRaceTime : AdmittedIn(t) <= Limit

(***************************************************************************)
(* reliability/__init__.py: APIReliabilityWrapper.wrap                     *)
(*                                                                         *)
(* The wrapper calls allow_request, record_success and record_failure on   *)
(* its circuit breaker.  The repository's CircuitBreaker class defines     *)
(* none of the three; they are modelled here from the breaker protocol of  *)
(* the specification (section 4.4).                                        *)
(***************************************************************************)
BreakerAllowRequest(cb, t) ==
    IF cb.state = "open"
    THEN IF cb.last_failure_time # None /\ t - cb.last_failure_time >= ResetTimeout
         THEN [cb |-> [cb EXCEPT !.state = "half_open"], allowed |-> TRUE]
         ELSE [cb |-> cb, allowed |-> FALSE]
    ELSE IF cb.state = "half_open"
         THEN [cb |-> cb, allowed |-> FALSE]
         ELSE [cb |-> cb, allowed |-> TRUE]

BreakerRecordSuccess(cb) ==
    [cb EXCEPT !.failures = 0, !.state = "closed"]

BreakerRecordFailure(cb, t) ==
    [cb EXCEPT !.failures = cb.failures + 1,
               !.last_failure_time = t,
               !.state = IF cb.failures + 1 >= FailThreshold
                         THEN "open" ELSE cb.state]

RECURSIVE Pow2(_)
Pow2(n) == IF n = 0 THEN 1 ELSE 2 * Pow2(n - 1)

\* time.sleep(self.retry_delay * (2 ** attempt))
Backoff(a) == RetryDelay * Pow2(a)

\* The time one call sleeps when every attempt fails.
RECURSIVE TotalBackoff(_)
TotalBackoff(n) == IF n = 0 THEN 0 ELSE TotalBackoff(n - 1) + Backoff(n - 1)

\* wrapper(*args, **kwargs) is called: the loop starts with attempt 0.
WrapCall ==
    /\ wpc = "idle"
    /\ wrapCount < MaxWrapCalls
    /\ now + TotalBackoff(MaxRetries) <= MaxWrapTime
    /\ wpc' = "circuit_check"
    /\ attempt' = 0
    /\ wrapTrace' = <<>>
    /\ wrapError' = "none"
    /\ wrapResult' = "running"
    /\ wrapCount' = wrapCount + 1
    /\ UNCHANGED <<now, wcb, requests, wrapRest>>

\* if not self.circuit_breaker.allow_request(): raise Exception(...)
WrapCircuitCheck ==
    /\ wpc = "circuit_check"
    /\ LET r == BreakerAllowRequest(wcb, now) IN
         /\ wcb' = r.cb
         /\ wpc' = IF r.allowed THEN "rate_check" ELSE "except"
         /\ wrapError' = IF r.allowed THEN wrapError ELSE "circuit_open"
    /\ wrapTrace' = Append(wrapTrace, "circuit_check")
    /\ UNCHANGED <<now, attempt, wrapResult, wrapCount, requests, wrapRest>>

\* if not self.rate_limiter.allow_request(): raise Exception(...)
WrapRateCheck ==
    /\ wpc = "rate_check"
    /\ LET r == AllowRequest(requests, now) IN
         /\ requests' = r.requests
         /\ wpc' = IF r.allowed THEN "call" ELSE "except"
         /\ wrapError' = IF r.allowed THEN wrapError ELSE "rate_limit"
    /\ wrapTrace' = Append(wrapTrace, "rate_check")
    /\ UNCHANGED <<now, wcb, attempt, wrapResult, wrapCount, wrapRest>>

\* result = func(...) returns; record_success(); return result
WrapFuncReturns ==
    /\ wpc = "call"
    /\ wcb' = BreakerRecordSuccess(wcb)
    /\ wpc' = "idle"
    /\ wrapResult' = "returned"
    /\ wrapTrace' = wrapTrace \o <<"func", "record_success">>
    /\ UNCHANGED <<now, attempt, wrapError, wrapCount, requests, wrapRest>>

\* result = func(...) raises
WrapFuncRaises ==
    /\ wpc = "call"
    /\ wpc' = "except"
    /\ wrapError' = "func_error"
    /\ wrapTrace' = Append(wrapTrace, "func")
    /\ UNCHANGED <<now, wcb, attempt, wrapResult, wrapCount, requests, wrapRest>>

\* The except clause mutated: the loop makes one attempt more.
WrapExceptOneMore ==
    /\ wpc = "except"
    /\ wcb' = BreakerRecordFailure(wcb, now)
    /\ wrapTrace' = Append(wrapTrace, "record_failure")
    /\ IF attempt = MaxRetries + 1
       THEN /\ wpc' = "idle"
            /\ wrapResult' = wrapError
       ELSE /\ wpc' = "sleep"
            /\ UNCHANGED wrapResult
    /\ UNCHANGED <<now, attempt, wrapError, wrapCount, requests, wrapRest>>

\* except Exception: record_failure(); re-raise on the last attempt,
\* otherwise go to sleep.
WrapExcept ==
    /\ wpc = "except"
    /\ wcb' = BreakerRecordFailure(wcb, now)
    /\ wrapTrace' = Append(wrapTrace, "record_failure")
    /\ IF attempt = MaxRetries
       THEN /\ wpc' = "idle"
            /\ wrapResult' = wrapError
       ELSE /\ wpc' = "sleep"
            /\ UNCHANGED wrapResult
    /\ UNCHANGED <<now, attempt, wrapError, wrapCount, requests, wrapRest>>

\* time.sleep(...) returns after the backoff; the loop goes on.
WrapSleep ==
    /\ wpc = "sleep"
    /\ now' = now + Backoff(attempt)
    /\ attempt' = attempt + 1
    /\ wpc' = "circuit_check"
    /\ wrapTrace' = Append(wrapTrace, "sleep")
    /\ UNCHANGED <<wcb, wrapError, wrapResult, wrapCount, requests, wrapRest>>

\* Time passes between wrapped calls.
WrapTick ==
    /\ wpc = "idle"
    /\ now < MaxWrapTime
    /\ now' = now + 1
    /\ UNCHANGED <<requests, wrapVars, wrapRest>>

\* The events of the attempt in progress: those after the last sleep.
LastSleep ==
    LET P == {i \in DOMAIN wrapTrace : wrapTrace[i] = "sleep"} IN
    IF P = {} THEN 0 ELSE CHOOSE i \in P : \A j \in P : j <= i

ThisAttempt == SubSeq(wrapTrace, LastSleep + 1, Len(wrapTrace))

\* An attempt that checks the circuit has checked the rate first.
C10_RateCheckFirst ==
    Count(ThisAttempt, "circuit_check") > 0 => ThisAttempt[1] = "rate_check"

C10_RateLimitedLeavesBreaker ==
    (wpc = "except" /\ wrapError = "rate_limit") => wcb' = wcb

(***************************************************************************)
(* C10: in a wrapped call the rate check runs before the circuit check,    *)
(* and handling a rejection by the rate limiter leaves the breaker's       *)
(* failure count, last-failure time and state as they were.                *)
(***************************************************************************)
C10_RateBeforeCircuit ==
    /\ []C10_RateCheckFirst
    /\ [][C10_RateLimitedLeavesBreaker]_vars

\* The handler of a rejection ends the call with the rejection.
C11_RejectionEnds ==
    (wpc = "except" /\ wrapError \in {"rate_limit", "circuit_open"})
        => (wpc' = "idle" /\ wrapResult' = wrapError)

(***************************************************************************)
(* C11: a call rejected by the rate limiter or by the open breaker ends    *)
(* with that rejection at once: no further attempt, no backoff sleep and   *)
(* no invocation of the operation follows.                                 *)
(***************************************************************************)
C11_FailFast == [][C11_RejectionEnds]_vars

C28_RejectionStep ==
    (wpc = "except" /\ wrapError = "circuit_open") => wcb' = wcb

(***************************************************************************)
(* C28: a call rejected because the breaker is open leaves the breaker's   *)
(* failure count, last-failure time and state as they were, so rejections  *)
(* never postpone the moment the breaker can be tried again.               *)
(***************************************************************************)
C28_RejectionLeavesBreaker == [][C28_RejectionStep]_vars

FuncCalls == Count(wrapTrace, "func")

\* What made the last attempt of the trace fail.
LastAttemptError ==
    IF Count(ThisAttempt, "func") > 0 THEN "func_error"
    ELSE IF Count(ThisAttempt, "rate_check") > 0 THEN "rate_limit"
    ELSE "circuit_open"

C12_Bounded ==
    /\ FuncCalls <= MaxRetries + 1
    /\ Count(wrapTrace, "record_failure") <= MaxRetries + 1

\* A call goes on only while no attempt has succeeded, and a call that
\* returned ended with its only successful attempt.
C12_ReturnsFirstSuccess ==
    /\ wpc # "idle" => Count(wrapTrace, "record_success") = 0
    /\ (wpc = "idle" /\ wrapResult = "returned") =>
          /\ Count(wrapTrace, "record_success") = 1
          /\ LastEvent(wrapTrace) = "record_success"
          /\ wrapTrace[Len(wrapTrace) - 1] = "func"

\* A call that raised made every attempt, all failed, and raised what the
\* last one failed with.
C12_RaisesLastError ==
    (wpc = "idle" /\ wrapResult \notin {"none", "returned"}) =>
        /\ Count(wrapTrace, "record_failure") = MaxRetries + 1
        /\ Count(wrapTrace, "record_success") = 0
        /\ wrapResult = LastAttemptError

C13_FailureStep ==
    wpc = "except" =>
        /\ wcb'.failures = wcb.failures + 1
        /\ (wcb.state # "open" /\ wcb'.state = "open") => wpc' = "idle"

(***************************************************************************)
(* C13: within one call each failed attempt raises the breaker's failure   *)
(* count by exactly one, and the failed attempt that brings the count to   *)
(* failThreshold opens the breaker and ends the call: no further attempt   *)
(* and no backoff sleep follows, even before maxRetries + 1 attempts.      *)
(***************************************************************************)
C13_OpeningStopsRetries == [][C13_FailureStep]_vars

(***************************************************************************)
(* semantic_cache.py                                                       *)
(***************************************************************************)
\* get mutated: an entry is already expired at its expiry time.
SemanticCacheGetEarly(c, key, t) ==
    IF key \notin DOMAIN c
    THEN [cache |-> c, found |-> FALSE]
    ELSE IF t >= c[key].expiry
         THEN [cache |-> [k \in DOMAIN c \ {key} |-> c[k]], found |-> FALSE]
         ELSE [cache |-> c, found |-> TRUE]

\* get mutated: an expired entry is reported absent but stays stored.
SemanticCacheGetKeeps(c, key, t) ==
    IF key \in DOMAIN c /\ t <= c[key].expiry
    THEN [cache |-> c, found |-> TRUE]
    ELSE [cache |-> c, found |-> FALSE]

\* get: the cache after the call and whether a value was returned (the
\* value is then c[key].value); an expired entry is deleted.
SemanticCacheGet(c, key, t) ==
    IF key \notin DOMAIN c
    THEN [cache |-> c, found |-> FALSE]
    ELSE IF t > c[key].expiry
         THEN [cache |-> [k \in DOMAIN c \ {key} |-> c[k]], found |-> FALSE]
         ELSE [cache |-> c, found |-> TRUE]

\* set mutated: the new value is merged into the one stored.
SemanticCacheSetMerge(c, key, value, t) ==
    [k \in DOMAIN c \cup {key} |->
        IF k = key
        THEN [value |-> IF key \in DOMAIN c THEN c[key].value \cup value ELSE value,
              expiry |-> t + ttl]
        ELSE c[k]]

\* set
SemanticCacheSet(c, key, value, t) ==
    [k \in DOMAIN c \cup {key} |->
        IF k = key THEN [value |-> value, expiry |-> t + ttl] ELSE c[k]]

\* clear
SemanticCacheClear(c) == <<>>

\* The cache used directly: keys, and values that are dicts given by their
\* items.
CacheKeys == {"k1", "k2"}

CacheValues ==
    {{<<"response", "a">>, <<"role", "sales">>}, {<<"response", "b">>}}

NoOp == [op |-> "none"]

\* value = cache.get(key)
CacheGet(key) ==
    /\ cacheOps < MaxCacheOps
    /\ LET got == SemanticCacheGet(cache, key, now) IN
         /\ cache' = got.cache
         /\ lastOp' = [op |-> "get", key |-> key, at |-> now,
                       found |-> got.found,
                       value |-> IF got.found THEN cache[key].value ELSE {}]
    /\ cacheOps' = cacheOps + 1
    /\ UNCHANGED <<now, lastSet, scRest>>

\* cache.set(key, value)
CacheSet(key, value) ==
    /\ cacheOps < MaxCacheOps
    /\ cache' = SemanticCacheSet(cache, key, value, now)
    /\ lastOp' = [op |-> "set", key |-> key, at |-> now, found |-> FALSE,
                  value |-> value]
    /\ lastSet' = [k \in DOMAIN lastSet \cup {key} |->
                     IF k = key THEN [value |-> value, at |-> now]
                     ELSE lastSet[k]]
    /\ cacheOps' = cacheOps + 1
    /\ UNCHANGED <<now, scRest>>

\* cache.clear()
CacheClear ==
    /\ cacheOps < MaxCacheOps
    /\ cache # <<>>
    /\ cache' = SemanticCacheClear(cache)
    /\ lastOp' = [op |-> "clear"]
    /\ lastSet' = <<>>
    /\ cacheOps' = cacheOps + 1
    /\ UNCHANGED <<now, scRest>>

CacheTick ==
    /\ now < MaxCacheTime
    /\ now' = now + 1
    /\ UNCHANGED <<cache, scVars, scRest>>

\* The key of the last get has been set, not cleared since, and the get is
\* not later than ttl after that set.
Unexpired ==
    /\ lastOp.key \in DOMAIN lastSet
    /\ lastOp.at <= lastSet[lastOp.key].at + ttl

(***************************************************************************)
(* C16: get(k) returns the stored value while the time is not past the     *)
(* time of set(k) plus ttl; a get(k) after that moment returns absent and  *)
(* leaves no entry under k, and so does every later get(k) until the next  *)
(* set(k).                                                                 *)
(***************************************************************************)
C16_Theorem ==
    lastOp.op = "get" =>
        IF Unexpired
        THEN lastOp.found /\ lastOp.value = lastSet[lastOp.key].value
        ELSE ~ lastOp.found /\ lastOp.key \notin DOMAIN cache

\* A get after the entry's time to live found nothing and evicted it.
C16_Witness ==
    /\ lastOp.op = "get"
    /\ lastOp.key \in DOMAIN lastSet
    /\ lastOp.at > lastSet[lastOp.key].at + ttl
    /\ ~ lastOp.found
    /\ lastOp.key \notin DOMAIN cache

\* What get(k) returns at time t.
Lookup(c, k, t) ==
    IF SemanticCacheGet(c, k, t).found THEN c[k].value ELSE {<<"absent", "">>}

C17_SetStep ==
    (cacheOps' = cacheOps + 1 /\ lastOp'.op = "set") =>
        /\ Lookup(cache', lastOp'.key, now) = lastOp'.value
        /\ \A k \in CacheKeys \ {lastOp'.key} :
              Lookup(cache', k, now) = Lookup(cache, k, now)

(***************************************************************************)
(* C17: set(k, v) replaces whatever is stored under k: right after it and  *)
(* at every unexpired get(k) later, get returns exactly the value of the   *)
(* most recent set(k), with nothing of earlier values in it, and a set on  *)
(* k changes what get returns for no other key.                            *)
(***************************************************************************)
C17_Theorem ==
    /\ [][C17_SetStep]_vars
    /\ []((lastOp.op = "get" /\ lastOp.found) =>
            /\ lastOp.key \in DOMAIN lastSet
            /\ lastOp.value = lastSet[lastOp.key].value)

\* A get returned the second value set under a key that held another one,
\* while the other key was stored too.
C17_Witness ==
    /\ lastOp.op = "get"
    /\ lastOp.found
    /\ lastOp.value = {<<"response", "b">>}
    /\ cacheOps >= 4
    /\ DOMAIN cache = CacheKeys

(***************************************************************************)
(* SemanticCache.get running while another thread calls set.  No lock      *)
(* guards the dict: the thread inside get may be switched out after it     *)
(* read the entry and after it compared the expiry.                        *)
(***************************************************************************)
NoGet == [pc |-> "idle"]

\* if key not in self.cache: return None; entry = self.cache[key]
GetBegin(key) ==
    /\ getter.pc = "idle"
    /\ cacheOps < MaxCacheOps
    /\ cacheOps' = cacheOps + 1
    /\ getter' = IF key \in DOMAIN cache
                 THEN [pc |-> "found", key |-> key, entry |-> cache[key]]
                 ELSE NoGet
    /\ UNCHANGED <<now, cache, cacheRaceRest>>

\* if time.time() > entry["expiry"]: ... else return entry["value"]
GetCheck ==
    /\ getter.pc = "found"
    /\ getter' = IF now > getter.entry.expiry
                 THEN [getter EXCEPT !.pc = "expired"]
                 ELSE NoGet
    /\ UNCHANGED <<now, cache, cacheOps, cacheRaceRest>>

\* del self.cache[key]; return None (KeyError when the key is gone)
GetDelete ==
    /\ getter.pc = "expired"
    /\ cache' = [k \in DOMAIN cache \ {getter.key} |-> cache[k]]
    /\ getter' = NoGet
    /\ UNCHANGED <<now, cacheOps, cacheRaceRest>>

\* The step of get that deletes leaves an entry that has not expired.
C25_DeleteStep ==
    (getter.pc = "expired" /\ getter'.pc = "idle") =>
        ((getter.key \in DOMAIN cache /\ now <= cache[getter.key].expiry)
            => (getter.key \in DOMAIN cache' /\ cache'[getter.key] = cache[getter.key]))

(***************************************************************************)
(* C25: a get and a set on one key that overlap act as if one ran wholly   *)
(* before the other: the key holds the value of the set afterwards, and a  *)
(* get that found an expired entry never deletes the fresh entry a         *)
(* concurrent set stored.                                                  *)
(***************************************************************************)
C25_GetKeepsFreshEntry == [][C25_DeleteStep]_vars

(***************************************************************************)
(* reliability.py: the simplified APIReliabilityWrapper.call, with the     *)
(* CircuitBreaker of api_circuit_breaker.py.  The wrapped function runs    *)
(* between the check of the circuit and the write of its state, and other  *)
(* callers of the same wrapper may run meanwhile.                          *)
(***************************************************************************)
\* call mutated: the state of the circuit is not looked at.
ApiCallBeginUnchecked(c) ==
    /\ c \notin calling
    /\ Len(callLog) < MaxApiCalls
    /\ calling' = calling \cup {c}
    /\ callLog' = Append(callLog, "func")
    /\ UNCHANGED <<now, circuit, apiRest>>

\* if self.circuit.state == "open": return {"error": ...}; else func(...)
ApiCallBegin(c) ==
    /\ c \notin calling
    /\ Len(callLog) < MaxApiCalls
    /\ IF circuit = "open"
       THEN /\ callLog' = Append(callLog, "circuit_open")
            /\ UNCHANGED calling
       ELSE /\ calling' = calling \cup {c}
            /\ callLog' = Append(callLog, "func")
    /\ UNCHANGED <<now, circuit, apiRest>>

\* func returns: self.circuit.state = "closed"; return result
ApiCallReturns(c) ==
    /\ c \in calling
    /\ circuit' = "closed"
    /\ calling' = calling \ {c}
    /\ callLog' = Append(callLog, "returned")
    /\ UNCHANGED <<now, apiRest>>

\* func raises: self.circuit.state = "open"; raise
ApiCallRaises(c) ==
    /\ c \in calling
    /\ circuit' = "open"
    /\ calling' = calling \ {c}
    /\ callLog' = Append(callLog, "raised")
    /\ UNCHANGED <<now, apiRest>>

\* A failed call opens the circuit, and a call made while the circuit is
\* open returns the error value without invoking the function.
C29_CallStep ==
    Len(callLog') = Len(callLog) + 1 =>
        /\ LastEvent(callLog') = "raised" => circuit' = "open"
        /\ (circuit = "open" /\ LastEvent(callLog') \in {"func", "circuit_open"}) =>
              /\ LastEvent(callLog') = "circuit_open"
              /\ calling' = calling
              /\ circuit' = "open"

(***************************************************************************)
(* C29 as stated: in the simplified APIReliabilityWrapper.call one failed  *)
(* call opens the circuit, and once it is open no call operation changes   *)
(* it again: every later call returns the circuit-open error value without *)
(* invoking the function, so the circuit never closes.                     *)
(***************************************************************************)
C29_Original ==
    /\ [][C29_CallStep]_vars
    /\ [][circuit = "open" => circuit' = "open"]_vars

(***************************************************************************)
(* C29 amended: one failed call opens the circuit, and every call made     *)
(* while it is open returns the circuit-open error value without invoking  *)
(* the function and leaves it open; the open circuit closes only when a    *)
(* call that was already inside the function when the circuit opened       *)
(* returns, so with no call in flight it stays open for good.              *)
(***************************************************************************)
C29_Theorem ==
    /\ [][C29_CallStep]_vars
    /\ [][(circuit = "open" /\ circuit' # "open") =>
            (calling # {} /\ LastEvent(callLog') = "returned")]_vars
    /\ [][(circuit = "open" /\ calling = {}) =>
            (circuit' = "open" /\ calling' = {})]_vars

\* After a failed call opened the circuit, with no call in flight, two
\* more calls were turned away.
C29_Witness ==
    /\ circuit = "open"
    /\ calling = {}
    /\ Len(callLog) >= 4
    /\ callLog[Len(callLog)] = "circuit_open"
    /\ callLog[Len(callLog) - 1] = "circuit_open"
    /\ callLog[Len(callLog) - 2] = "raised"

(***************************************************************************)
(* agents/sales_agent.py, agents/support_agent.py: process_message         *)
(*                                                                         *)
(* A context_data argument is None or a dict; a dict is given by its       *)
(* items in insertion order.                                               *)
(***************************************************************************)
Roles == {"sales", "support"}

AgentMessages == {"hello", "my plan"}

NoContext == [given |-> FALSE, items |-> <<>>]

Dict(items) == [given |-> TRUE, items |-> items]

ContextDatas ==
    { NoContext,
      Dict(<< <<"conversation_id", "c1">>, <<"role", "sales">> >>),
      Dict(<< <<"role", "sales">>, <<"conversation_id", "c1">> >>) }

\* What the generator (agent_executor.invoke) does when it is called.
GeneratorOutcomes == {"answer", "no output", "raise"}

FallbackText == "I'm sorry, but I encountered an error"

DefaultText == "I'm sorry, I couldn't process your request."

\* A dict as a value: two dicts are equal when their items are.
Items(ctx) == {ctx.items[i] : i \in DOMAIN ctx.items}

\* `if context_data`: None and the empty dict are falsy.
Truthy(ctx) == ctx.given /\ ctx.items # <<>>

\* sha256(json.dumps(context_data, sort_keys=True)) if context_data else "":
\* sort_keys makes the dump a function of the items alone, and the digest is
\* taken to be free of collisions; the empty string is the empty item set.
ContextHash(ctx) == IF Truthy(ctx) THEN Items(ctx) ELSE {}

\* f"{role}:{message}:{context_hash}"
CacheKey(role, message, ctx) == <<role, message, ContextHash(ctx)>>

\* The request as the agent's caller sees it.
Request(role, message, ctx) == <<role, message, ctx.given, Items(ctx)>>

NoCall == [made |-> FALSE]

\* The except clause mutated: the fallback is stored under the key.
GeneratorErrorCached(c, key, role, t) ==
    [cache |-> SemanticCacheSet(c, key,
                   [response |-> FallbackText, timestamp |-> t, role |-> role], t),
     response |-> FallbackText,
     cached |-> FALSE,
     generator |-> TRUE,
     failed |-> TRUE,
     metadata |-> {"role", "error", "processing_time"}]

\* `except Exception` around agent_executor.invoke: the fallback is
\* returned and the cache is left as it is.
GeneratorError(c, key, role, t) ==
    [cache |-> c,
     response |-> FallbackText,
     cached |-> FALSE,
     generator |-> TRUE,
     failed |-> TRUE,
     metadata |-> IF role = "sales"
                  THEN {"role", "error", "processing_time"}
                  ELSE {"role", "error", "processing_time", "duration_seconds"}]

\* The result of process_message(message, context_data) of the agent of
\* `role` at time t when the generator, if invoked, does `gen`.
ProcessMessage(c, role, message, ctx, gen, t) ==
    LET key == CacheKey(role, message, ctx)
        got == SemanticCacheGet(c, key, t)
    IN  IF got.found
        THEN [cache |-> got.cache,
              response |-> c[key].value.response,
              cached |-> TRUE,
              generator |-> FALSE,
              failed |-> FALSE,
              metadata |-> IF role = "sales"
                           THEN {"cached", "role"}
                           ELSE {"cached", "role", "duration_seconds"}]
        ELSE IF gen = "raise"
        THEN GeneratorError(got.cache, key, role, t)
        ELSE LET response == IF gen = "no output" THEN DefaultText ELSE gen IN
             [cache |-> SemanticCacheSet(got.cache, key,
                            [response |-> response, timestamp |-> t, role |-> role], t),
              response |-> response,
              cached |-> FALSE,
              generator |-> TRUE,
              failed |-> FALSE,
              metadata |-> IF role = "sales"
                           THEN {"role", "processing_time", "cached", "entities"}
                           ELSE {"role", "processing_time", "cached", "entities",
                                 "duration_seconds"}]

AgentProcessMessage(role, message, ctx, gen) ==
    /\ agentCalls < MaxAgentCalls
    /\ LET r == ProcessMessage(cache, role, message, ctx, gen, now)
           q == Request(role, message, ctx)
       IN  /\ cache' = r.cache
           /\ lastCall' = [made |-> TRUE, request |-> q, at |-> now,
                           response |-> r.response, cached |-> r.cached,
                           generator |-> r.generator, failed |-> r.failed,
                           metadata |-> r.metadata,
                           first |-> IF q \in DOMAIN firstCall
                                     THEN firstCall[q] ELSE NoCall]
           /\ firstCall' =
                IF r.generator
                THEN [k \in DOMAIN firstCall \cup {q} |->
                        IF k = q
                        THEN [made |-> TRUE, at |-> now, response |-> r.response,
                              failed |-> r.failed]
                        ELSE firstCall[k]]
                ELSE firstCall
    /\ agentCalls' = agentCalls + 1
    /\ UNCHANGED <<now, agentRest>>

AgentTick ==
    /\ now < MaxAgentTime
    /\ Tick
    /\ UNCHANGED <<agentVars, agentRest>>

\* The last call repeats a request whose generator call is `first`, before
\* the cache TTL has run out since.
RepeatWithinTTL ==
    /\ lastCall.made
    /\ lastCall.first.made
    /\ lastCall.at <= lastCall.first.at + ttl

AnsweredFromCache ==
    /\ lastCall.cached
    /\ "cached" \in lastCall.metadata
    /\ ~ lastCall.generator
    /\ lastCall.response = lastCall.first.response

(***************************************************************************)
(* C4 as stated: re-processing an identical (role, message, context)       *)
(* within the cache TTL is answered from the cache with the response of    *)
(* the first call and without a generator call.                            *)
(***************************************************************************)
C4_Original == RepeatWithinTTL => AnsweredFromCache

(***************************************************************************)
(* C4 amended: re-processing an identical (role, message, context) within  *)
(* the cache TTL of a first call whose generator succeeded is answered     *)
(* from the cache with the response of the first call and without a        *)
(* generator call.                                                         *)
(***************************************************************************)
C4_Theorem ==
    (RepeatWithinTTL /\ ~ lastCall.first.failed) => AnsweredFromCache

C4_Witness ==
    /\ RepeatWithinTTL
    /\ ~ lastCall.first.failed
    /\ lastCall.at = lastCall.first.at + ttl
    /\ lastCall.cached

(***************************************************************************)
(* C5: when the generator fails, process_message returns the fallback text *)
(* with metadata that carries the error and the type of the error.         *)
(***************************************************************************)
C5_FallbackWithErrorType ==
    (lastCall.made /\ lastCall.failed)
        => /\ lastCall.response = FallbackText
           /\ "error" \in lastCall.metadata
           /\ "error_type" \in lastCall.metadata

\* The cache key of a request.
KeyOf(q) == <<q[1], q[2], IF q[3] THEN q[4] ELSE {}>>

(***************************************************************************)
(* C14: a call whose generator fails writes nothing to the cache: after    *)
(* it the cache has no entry under the call's key, and a repeat of a       *)
(* request whose last generator call failed invokes the generator again    *)
(* instead of returning a cached fallback.                                 *)
(***************************************************************************)
C14_Theorem ==
    /\ (lastCall.made /\ lastCall.failed) =>
            KeyOf(lastCall.request) \notin DOMAIN cache
    /\ (lastCall.made /\ lastCall.first.made /\ lastCall.first.failed) =>
            (lastCall.generator /\ ~ lastCall.cached)

\* The same request again, at once, after its generator had failed.
C14_Witness ==
    /\ lastCall.made
    /\ lastCall.first.made
    /\ lastCall.first.failed
    /\ lastCall.at = lastCall.first.at
    /\ lastCall.generator

(***************************************************************************)
(* conversation_context.py: ConversationContextManager                     *)
(*                                                                         *)
(* A message is the set of phrases its text is made of; `keyword in        *)
(* message.lower()` holds when the keyword occurs inside one of them.      *)
(***************************************************************************)
Phrases ==
    {"hello", "options", "price", "help", "details", "expensive", "buy",
     "thank you", "downgrade", "me@mail.com"}

\* The keywords of the tables below that occur inside a phrase.
KeywordsIn(p) ==
    CASE p = "downgrade" -> {"downgrade", "down"}
      [] p \in {"me@mail.com", "hello"} -> {}
      [] OTHER -> {p}

\* re.findall(email_pattern, message)
EmailsIn(message) == message \cap {"me@mail.com"}

Contains(message, keyword) == \E p \in message : keyword \in KeywordsIn(p)

ContainsAny(message, keywords) == \E k \in keywords : Contains(message, k)

\* The messages the conversations receive.
Messages ==
    {{"hello"}, {"options"}, {"buy"}, {"details"}, {"expensive"},
     {"thank you"}, {"help"}, {"downgrade"}, {"me@mail.com"},
     {"options", "details"}}

\* The histories handed in with a message, oldest turn first.
Histories ==
    {<<>>,
     <<{"price"}>>,
     <<{"help"}>>,
     <<{"help"}, {"help"}, {"price"}, {"price"}, {"price"}>>}

ConversationIds == {"c1"}

sales_keywords ==
    {"buy", "purchase", "price", "cost", "plan", "package", "offer", "deal",
     "subscription", "upgrade", "downgrade", "sign up", "tariff", "promotion",
     "discount", "sale", "interested in", "looking for", "available", "options"}

support_keywords ==
    {"help", "issue", "problem", "trouble", "not working", "error", "fix",
     "broken", "slow", "outage", "down", "connection", "speed", "service",
     "technical", "support", "assistance", "ticket", "complaint"}

KeywordCount(message, keywords) ==
    Cardinality({k \in keywords : Contains(message, k)})

RECURSIVE HistoryCount(_, _)
HistoryCount(h, keywords) ==
    IF h = <<>> THEN 0
    ELSE KeywordCount(Head(h), keywords) + HistoryCount(Tail(h), keywords)

\* history[-3:] if len(history) >= 3 else history
RecentMsgs(h) == IF Len(h) >= 3 THEN SubSeq(h, Len(h) - 2, Len(h)) ELSE h

\* The role the recent history overrides the decision with, if any.
HistoryTrend(h) ==
    LET s == HistoryCount(RecentMsgs(h), sales_keywords)
        p == HistoryCount(RecentMsgs(h), support_keywords)
    IN  IF Len(h) = 0 THEN "none"
        ELSE IF s > p * 2 THEN "sales"
        ELSE IF p > s * 2 THEN "support"
        ELSE "none"

PreviousRole(ctxs, cid) ==
    IF cid \in DOMAIN ctxs THEN ctxs[cid].role ELSE "support"

\* detect_role mutated: a tie falls back to support.
DetectRoleTieSupport(ctxs, cid, message, history) ==
    LET s == KeywordCount(message, sales_keywords)
        p == KeywordCount(message, support_keywords)
        new_role == IF s > p THEN "sales" ELSE "support"
    IN  IF HistoryTrend(history) # "none" THEN HistoryTrend(history) ELSE new_role

DetectRole(ctxs, cid, message, history) ==
    LET s == KeywordCount(message, sales_keywords)
        p == KeywordCount(message, support_keywords)
        new_role == IF s > p THEN "sales"
                    ELSE IF p > s THEN "support"
                    ELSE PreviousRole(ctxs, cid)
    IN  IF HistoryTrend(history) # "none" THEN HistoryTrend(history) ELSE new_role

NoValue == "None"   \* Python's None for a role, a stage or an issue type

stages ==
    <<"initial", "discovery", "presentation", "objection_handling", "closing",
      "follow_up">>

StageKeywords(stage) ==
    CASE stage = "initial" ->
            {"what", "which", "how much", "tell me about", "options"}
      [] stage = "discovery" ->
            {"details", "features", "benefits", "specific", "that plan"}
      [] stage = "presentation" ->
            {"expensive", "too much", "concern", "not sure", "competitor"}
      [] stage = "objection_handling" ->
            {"sign up", "get started", "purchase", "buy", "proceed"}
      [] stage = "closing" ->
            {"thank you", "received", "confirmation", "done"}
      [] OTHER -> {}

NextStage(stage) ==
    CASE stage = "initial" -> "discovery"
      [] stage = "discovery" -> "presentation"
      [] stage = "presentation" -> "objection_handling"
      [] stage = "objection_handling" -> "closing"
      [] stage = "closing" -> "follow_up"
      [] OTHER -> stage

\* One `if` of the chain in _update_sales_stage.
Advance(stage, message) ==
    IF ContainsAny(message, StageKeywords(stage)) THEN NextStage(stage) ELSE stage

\* _update_sales_stage mutated: the rules are separate ifs, not an elif chain.
UpdateSalesStageCascade(ctx, message) ==
    [ctx EXCEPT !.sales_stage =
        Advance(Advance(Advance(Advance(Advance(@, message), message),
                                message), message), message)]

\* _update_sales_stage
UpdateSalesStage(ctx, message) ==
    [ctx EXCEPT !.sales_stage = Advance(@, message)]

issue_types ==
    << <<"connectivity",
         {"can't connect", "no internet", "offline", "disconnected", "no signal"}>>,
       <<"speed", {"slow", "speed", "bandwidth", "buffering", "lagging"}>>,
       <<"billing",
         {"bill", "payment", "charge", "invoice", "overcharged", "credit"}>>,
       <<"technical",
         {"router", "modem", "device", "setup", "configuration", "settings"}>>,
       <<"account",
         {"password", "login", "account", "profile", "details", "information"}>> >>

\* _update_support_issue_type: the first type with a keyword in the message.
UpdateSupportIssueType(ctx, message) ==
    LET hits == {i \in DOMAIN issue_types :
                    ContainsAny(message, issue_types[i][2])}
    IN  IF hits = {} THEN ctx
        ELSE LET first == CHOOSE i \in hits : \A j \in hits : i <= j IN
             [ctx EXCEPT !.support_issue_type = issue_types[first][1]]

\* _extract_customer_info: no phrase of the model is a phone number or
\* follows "my name is".
ExtractCustomerInfo(ctx, message) ==
    IF EmailsIn(message) # {} /\ ctx.customer_info.email = NoValue
    THEN [ctx EXCEPT !.customer_info.email = CHOOSE e \in EmailsIn(message) : TRUE]
    ELSE ctx

\* The context get_role_context creates for an unknown conversation.
NewContextSwapped(role, t) ==
    [role |-> role, created_at |-> t, last_updated |-> t,
     sales_stage |-> IF role = "support" THEN "initial" ELSE NoValue,
     support_issue_type |-> IF role = "support" THEN "general" ELSE NoValue,
     customer_info |-> [email |-> NoValue, phone |-> NoValue, name |-> NoValue],
     lead_info |-> {}, messages_count |-> 1,
     previous_role |-> NoValue, role_transitions |-> <<>>,
     last_message_time |-> None]

NewContext(role, t) ==
    [role |-> role, created_at |-> t, last_updated |-> t,
     sales_stage |-> IF role = "sales" THEN "initial" ELSE NoValue,
     support_issue_type |-> IF role = "support" THEN "general" ELSE NoValue,
     customer_info |-> [email |-> NoValue, phone |-> NoValue, name |-> NoValue],
     lead_info |-> {}, messages_count |-> 1,
     previous_role |-> NoValue, role_transitions |-> <<>>,
     last_message_time |-> None]

\* The `else` branch mutated: a sales message always starts at Initial.
TouchContextRestart(ctx, role, t) ==
    [ctx EXCEPT !.role = role,
                !.last_updated = t,
                !.messages_count = @ + 1,
                !.sales_stage = IF role = "sales" THEN "initial" ELSE @,
                !.support_issue_type =
                    IF role = "support" /\ @ = NoValue THEN "general" ELSE @]

\* The `else` branch of get_role_context: an existing context is updated.
TouchContext(ctx, role, t) ==
    [ctx EXCEPT !.role = role,
                !.last_updated = t,
                !.messages_count = @ + 1,
                !.sales_stage =
                    IF role = "sales" /\ @ = NoValue THEN "initial" ELSE @,
                !.support_issue_type =
                    IF role = "support" /\ @ = NoValue THEN "general" ELSE @]

\* get_role_context: the context of the conversation after the call.
GetRoleContext(ctxs, cid, message, history, t) ==
    LET role == DetectRole(ctxs, cid, message, history)
        c0 == IF cid \notin DOMAIN ctxs
              THEN NewContext(role, t)
              ELSE TouchContext(ctxs[cid], role, t)
        c1 == ExtractCustomerInfo(c0, message)
    IN  IF role = "sales" THEN UpdateSalesStage(c1, message)
        ELSE UpdateSupportIssueType(c1, message)

\* update_context: get_role_context, then the role transition bookkeeping.
UpdateContextResult(ctxs, cid, message, history, t) ==
    LET c == GetRoleContext(ctxs, cid, message, history, t)
        changed == c.previous_role # NoValue /\ c.previous_role # c.role
    IN  [c EXCEPT !.role_transitions =
                     IF changed
                     THEN Append(@, [from |-> c.previous_role, to |-> c.role,
                                     timestamp |-> t])
                     ELSE @,
                  !.previous_role = c.role,
                  !.last_message_time = t]

Store(ctxs, cid, ctx) ==
    [k \in DOMAIN ctxs \cup {cid} |-> IF k = cid THEN ctx ELSE ctxs[k]]

MessagesCount(cid) ==
    IF cid \in DOMAIN contexts THEN contexts[cid].messages_count ELSE 0

\* What the last call was given and what the conversation was before it.
Given(cid, message, history) ==
    [made |-> TRUE, cid |-> cid, message |-> message, history |-> history,
     known |-> cid \in DOMAIN contexts,
     role_before |-> PreviousRole(contexts, cid)]

\* update_context
CtxUpdateContext(cid, message, history) ==
    /\ MessagesCount(cid) < MaxMessages
    /\ contexts' = Store(contexts, cid,
                         UpdateContextResult(contexts, cid, message, history, now))
    /\ lastUpdate' = Given(cid, message, history)
    /\ UNCHANGED <<now, ctxRest>>

\* reset_context
CtxResetContext(cid) ==
    /\ cid \in DOMAIN contexts
    /\ contexts' = [k \in DOMAIN contexts \ {cid} |-> contexts[k]]
    /\ lastUpdate' = [made |-> FALSE]
    /\ UNCHANGED <<now, ctxRest>>

CtxTick ==
    /\ now < MaxCtxTime
    /\ Tick
    /\ UNCHANGED <<ctxVars, ctxRest>>

(***************************************************************************)
(* Two update_context calls on one conversation that overlap.  No lock     *)
(* guards the contexts: a thread may be switched out after it has looked   *)
(* the conversation up (and, for a known one, written the role and read    *)
(* messages_count) and before it stores the new context or the new count.  *)
(***************************************************************************)
UpdateThreads == {1, 2}

RaceConversationId == "c1"

RaceMessages == {{"buy"}, {"help"}, {"me@mail.com"}}

\* get_role_context after the context was created or touched, and the
\* bookkeeping of update_context.
AfterRoleContext(c0, role, message, t) ==
    LET c1 == ExtractCustomerInfo(c0, message)
        c == IF role = "sales" THEN UpdateSalesStage(c1, message)
             ELSE UpdateSupportIssueType(c1, message)
        changed == c.previous_role # NoValue /\ c.previous_role # c.role
    IN  [c EXCEPT !.role_transitions =
                     IF changed
                     THEN Append(@, [from |-> c.previous_role, to |-> c.role,
                                     timestamp |-> t])
                     ELSE @,
                  !.previous_role = c.role,
                  !.last_message_time = t]

\* Two deliveries for the conversation arrive together.
UpdStart(m1, m2) ==
    /\ IF race.on THEN \A th \in UpdateThreads : race.pc[th] = "done" ELSE TRUE
    /\ MessagesCount(RaceConversationId) + 2 <= MaxMessages
    /\ race' = [on |-> TRUE, base |-> contexts, message |-> <<m1, m2>>,
                pc |-> <<"begin", "begin">>, role |-> <<NoValue, NoValue>>,
                known |-> <<FALSE, FALSE>>, count |-> <<0, 0>>]
    /\ UNCHANGED <<now, contexts, ctxRaceRest>>

\* detect_role and `if conversation_id not in self.contexts`; for a known
\* conversation also the writes of role and last_updated and the read of
\* messages_count in `context["messages_count"] += 1`.
UpdBegin(th) ==
    /\ race.on
    /\ race.pc[th] = "begin"
    /\ LET cid == RaceConversationId
           role == DetectRole(contexts, cid, race.message[th], <<>>)
           known == cid \in DOMAIN contexts
       IN  /\ contexts' =
                IF known
                THEN Store(contexts, cid,
                           [contexts[cid] EXCEPT !.role = role, !.last_updated = now])
                ELSE contexts
           /\ race' = [race EXCEPT !.pc[th] = "finish",
                                   !.role[th] = role,
                                   !.known[th] = known,
                                   !.count[th] = IF known
                                                 THEN contexts[cid].messages_count
                                                 ELSE 0]
    /\ UNCHANGED <<now, ctxRaceRest>>

\* The new context or the new count is stored, and the call runs to its end.
UpdFinish(th) ==
    /\ race.on
    /\ race.pc[th] = "finish"
    /\ LET cid == RaceConversationId
           role == race.role[th]
           c0 == IF ~ race.known[th]
                 THEN NewContext(role, now)
                 ELSE [contexts[cid] EXCEPT
                          !.messages_count = race.count[th] + 1,
                          !.sales_stage =
                              IF role = "sales" /\ @ = NoValue THEN "initial" ELSE @,
                          !.support_issue_type =
                              IF role = "support" /\ @ = NoValue THEN "general" ELSE @]
       IN  contexts' = Store(contexts, cid,
                             AfterRoleContext(c0, role, race.message[th], now))
    /\ race' = [race EXCEPT !.pc[th] = "done"]
    /\ UNCHANGED <<now, ctxRaceRest>>

\* The context after the two updates ran one after the other.
Serial(base, first, second) ==
    LET cid == RaceConversationId
        c1 == Store(base, cid, UpdateContextResult(base, cid, first, <<>>, now))
    IN  UpdateContextResult(c1, cid, second, <<>>, now)

Agree(c, d) ==
    /\ c.messages_count = d.messages_count
    /\ c.customer_info = d.customer_info
    /\ c.role = d.role
    /\ c.sales_stage = d.sales_stage
    /\ c.support_issue_type = d.support_issue_type

(***************************************************************************)
(* C23: when two updates of one conversation overlap, the context after    *)
(* both equals the context after the two ran one after the other in some   *)
(* order: the message count grew by two, what both extracted is there, and *)
(* role and stage are those of one of the two orders.                      *)
(***************************************************************************)
C23_Serializable ==
    (race.on /\ \A th \in UpdateThreads : race.pc[th] = "done") =>
        LET c == contexts[RaceConversationId] IN
        \/ Agree(c, Serial(race.base, race.message[1], race.message[2]))
        \/ Agree(c, Serial(race.base, race.message[2], race.message[1]))

(***************************************************************************)
(* utils/conversation_context.py: ConversationContextManager, the manager  *)
(* app.py hands to the pipeline.  A dict of entities is a function from    *)
(* entity types to values.                                                 *)
(***************************************************************************)
UConversationIds == {"c1", "c2"}

\* The messages given to update_context; the empty set is the empty string.
UMessages == {{}, {"buy"}, {"help"}}

\* The roles a caller may ask set_role for.
RequestedRoles == {"sales", "support", "admin"}

EntityTypes == {"customer_id", "order_id"}

EntityValues == {"A-1", "A-2"}

\* The dicts given to update_entities.
EntityDicts ==
    { [customer_id |-> "A-1"], [customer_id |-> "A-2"], [order_id |-> "A-1"],
      [customer_id |-> "A-2", order_id |-> "A-2"] }

u_sales_keywords ==
    {"buy", "purchase", "order", "price", "cost", "subscription", "plan",
     "package", "offer", "promotion", "discount", "deal", "upgrade",
     "interested in", "sign up", "subscribe"}

u_support_keywords ==
    {"help", "issue", "problem", "trouble", "not working", "error", "fix",
     "broken", "slow", "connection", "speed", "outage", "down", "technical",
     "support", "assistance", "troubleshoot"}

\* The context get_conversation_context creates for an unknown id.
UNewContext(t) ==
    [role |-> "support", entities |-> <<>>, summary |-> "", history |-> <<>>,
     last_updated |-> t]

\* get_conversation_context: the contexts after the call.
GetConversationContext(ctxs, cid, t) ==
    IF cid \in DOMAIN ctxs THEN ctxs ELSE Store(ctxs, cid, UNewContext(t))

\* _detect_role: the role of the context after the call.
UDetectRole(ctx, message) ==
    LET s == KeywordCount(message, u_sales_keywords)
        p == KeywordCount(message, u_support_keywords)
    IN  IF s > p THEN "sales" ELSE IF p > s THEN "support" ELSE ctx.role

\* update_context(conversation_id, message) with no history argument.
UUpdateContext(ctxs, cid, message, t) ==
    LET c0 == GetConversationContext(ctxs, cid, t)
        ctx == c0[cid]
        c1 == IF message # {}
              THEN [ctx EXCEPT !.history =
                        Append(@, [content |-> message, timestamp |-> t]),
                               !.role = UDetectRole(ctx, message)]
              ELSE ctx
    IN  Store(c0, cid, [c1 EXCEPT !.last_updated = t])

\* set_role mutated: the role is stored without being looked at.
USetRoleUnchecked(ctxs, cid, role, t) ==
    LET c0 == GetConversationContext(ctxs, cid, t) IN
    [contexts |-> Store(c0, cid, [c0[cid] EXCEPT !.role = role]),
     raised |-> FALSE]

\* set_role: the contexts after the call and whether ValueError was raised.
USetRole(ctxs, cid, role, t) ==
    IF role \notin {"sales", "support"}
    THEN [contexts |-> ctxs, raised |-> TRUE]
    ELSE LET c0 == GetConversationContext(ctxs, cid, t) IN
         [contexts |-> Store(c0, cid, [c0[cid] EXCEPT !.role = role]),
          raised |-> FALSE]

\* dict.update
DictUpdate(old, new) ==
    [k \in DOMAIN old \cup DOMAIN new |-> IF k \in DOMAIN new THEN new[k] ELSE old[k]]

\* update_entities mutated: the dict of entities is replaced by the new one.
UUpdateEntitiesReplace(ctxs, cid, entities, t) ==
    LET c0 == GetConversationContext(ctxs, cid, t) IN
    Store(c0, cid, [c0[cid] EXCEPT !.entities = entities])

\* update_entities mutated: the merge stamps last_updated as update_context does.
UUpdateEntitiesStamped(ctxs, cid, entities, t) ==
    LET c0 == GetConversationContext(ctxs, cid, t) IN
    Store(c0, cid, [c0[cid] EXCEPT !.entities = DictUpdate(@, entities),
                                   !.last_updated = t])

\* update_entities
UUpdateEntities(ctxs, cid, entities, t) ==
    LET c0 == GetConversationContext(ctxs, cid, t) IN
    Store(c0, cid, [c0[cid] EXCEPT !.entities = DictUpdate(@, entities)])

\* clear_context
UClearContext(ctxs, cid) == [k \in DOMAIN ctxs \ {cid} |-> ctxs[k]]

NoDelivery == [made |-> FALSE]

UtilSetRole(cid, role) ==
    /\ uOps < MaxUtilOps
    /\ ucontexts' = USetRole(ucontexts, cid, role, now).contexts
    /\ lastU' = [op |-> "set_role", cid |-> cid, role |-> role,
                 raised |-> USetRole(ucontexts, cid, role, now).raised]
    /\ lastPipe' = NoDelivery
    /\ uOps' = uOps + 1
    /\ UNCHANGED <<now, cache, uRest>>

UtilUpdateContext(cid, message) ==
    /\ uOps < MaxUtilOps
    /\ ucontexts' = UUpdateContext(ucontexts, cid, message, now)
    /\ lastU' = [op |-> "update_context", cid |-> cid, message |-> message]
    /\ lastPipe' = NoDelivery
    /\ uOps' = uOps + 1
    /\ UNCHANGED <<now, cache, uRest>>

UtilUpdateEntities(cid, entities) ==
    /\ uOps < MaxUtilOps
    /\ ucontexts' = UUpdateEntities(ucontexts, cid, entities, now)
    /\ lastU' = [op |-> "update_entities", cid |-> cid, entities |-> entities]
    /\ lastPipe' = NoDelivery
    /\ uOps' = uOps + 1
    /\ UNCHANGED <<now, cache, uRest>>

UtilClearContext(cid) ==
    /\ uOps < MaxUtilOps
    /\ cid \in DOMAIN ucontexts
    /\ ucontexts' = UClearContext(ucontexts, cid)
    /\ lastU' = [op |-> "clear_context", cid |-> cid]
    /\ lastPipe' = NoDelivery
    /\ uOps' = uOps + 1
    /\ UNCHANGED <<now, cache, uRest>>

UtilTick ==
    /\ now < MaxUtilTime
    /\ now' = now + 1
    /\ UNCHANGED <<cache, uVars, uRest>>

(***************************************************************************)
(* langchain_integration.py: process_message with the utils manager and    *)
(* the two agents.                                                         *)
(***************************************************************************)
PipeMessages == {"hello", "my customer id is A-2"}

PipeConversationId == "c1"

\* What the generator does when a delivery reaches it.
PipeOutcomes == {"answer", "raise"}

\* extract_entity_ids, with every value made a string
ExtractEntityIds(message) ==
    IF message = "my customer id is A-2" THEN [customer_id |-> "A-2"] ELSE <<>>

\* A dict of strings as the set of its items.
DictItems(d) == {<<k, d[k]>> : k \in DOMAIN d}

\* get_conversation_summary of the utils manager, made safe_context_data:
\* the dict of entities is copied with str keys and values, every other
\* value goes through str, which tells the values apart.
SafeContextData(ctx) ==
    Dict(<< <<"role", ctx.role>>,
            <<"entities", DictItems(ctx.entities)>>,
            <<"summary", ctx.summary>>,
            <<"last_updated", ctx.last_updated>> >>)

\* The delivery before this one, when it was the operation just before.
Previous(d) ==
    IF d.made
    THEN [made |-> TRUE, cid |-> d.cid, message |-> d.message, at |-> d.at,
          key |-> d.key, response |-> d.response, generator |-> d.generator,
          failed |-> d.failed, manager |-> d.manager]
    ELSE NoDelivery

\* The agent mutated: the two agents are swapped.
SelectAgentSwapped(role) == IF role = "sales" THEN "support" ELSE "sales"

\* if role == "sales": sales_agent.process_message(...) else: support_agent
SelectAgent(role) == IF role = "sales" THEN "sales" ELSE "support"

\* What a delivery leaves behind: the role it read, the agent it handed
\* the message to, and the generators that were invoked for it.
Delivery(cid, message, manager, role, agent, ctx, r, t, prev) ==
    [made |-> TRUE, cid |-> cid, message |-> message, at |-> t,
     manager |-> manager, role |-> role, agent |-> agent,
     invoked |-> IF r.generator THEN {agent} ELSE {},
     key |-> CacheKey(agent, message, ctx),
     response |-> r.response, cached |-> r.cached,
     generator |-> r.generator, failed |-> r.failed,
     prev |-> Previous(prev)]

\* process_message(message, conversation_id, context_manager): the summary
\* holds the stored dict of entities itself, so the extracted entities
\* written into it are in the store before update_entities is called.
PipeProcessMessage(cid, message, gen) ==
    /\ uOps < MaxUtilOps
    /\ LET ids == ExtractEntityIds(message)
           c0 == GetConversationContext(ucontexts, cid, now)
           role == c0[cid].role
           c1 == IF ids # <<>> THEN UUpdateEntities(c0, cid, ids, now) ELSE c0
           ctx == SafeContextData(c1[cid])
           agent == SelectAgent(role)
           r == ProcessMessage(cache, agent, message, ctx, gen, now)
       IN  /\ ucontexts' = c1
           /\ cache' = r.cache
           /\ lastU' = IF ids # <<>>
                       THEN [op |-> "update_entities", cid |-> cid, entities |-> ids]
                       ELSE [op |-> "process_message", cid |-> cid]
           /\ lastPipe' = Delivery(cid, message, TRUE, role, agent, ctx, r, now,
                                   lastPipe)
    /\ uOps' = uOps + 1
    /\ UNCHANGED <<now, uRest>>

\* process_message(message, conversation_id, None): the role is the default
\* and context_data is {"role": role, "entities": string_entity_ids}.
PipeProcessMessageNoManager(cid, message, gen) ==
    /\ uOps < MaxUtilOps
    /\ LET ids == ExtractEntityIds(message)
           role == "support"
           ctx == Dict(<< <<"role", role>>, <<"entities", DictItems(ids)>> >>)
           agent == SelectAgent(role)
           r == ProcessMessage(cache, agent, message, ctx, gen, now)
       IN  /\ cache' = r.cache
           /\ lastPipe' = Delivery(cid, message, FALSE, role, agent, ctx, r, now,
                                   lastPipe)
    /\ lastU' = [op |-> "process_message", cid |-> cid]
    /\ uOps' = uOps + 1
    /\ UNCHANGED <<now, ucontexts, uRest>>

\* The last delivery repeats the message and the conversation of the one
\* just before it, whose generator was called, within the cache TTL of it.
Redelivery ==
    /\ lastPipe.made
    /\ lastPipe.prev.made
    /\ lastPipe.prev.generator
    /\ lastPipe.prev.cid = lastPipe.cid
    /\ lastPipe.prev.message = lastPipe.message
    /\ lastPipe.prev.manager = lastPipe.manager
    /\ lastPipe.at <= lastPipe.prev.at + ttl

ReplayedFromCache ==
    /\ lastPipe.key = lastPipe.prev.key
    /\ lastPipe.cached
    /\ ~ lastPipe.generator
    /\ lastPipe.response = lastPipe.prev.response

(***************************************************************************)
(* C15 as stated: the identical message delivered twice on one             *)
(* conversation through the whole pipeline within the cache TTL gets the   *)
(* same cache key both times, and the second delivery is a cache hit with  *)
(* no generator call and the response of the first.                        *)
(***************************************************************************)
C15_Original == Redelivery => ReplayedFromCache

(***************************************************************************)
(* C15 amended: the identical message delivered twice on one conversation  *)
(* through the whole pipeline within the cache TTL gets the same cache key *)
(* both times; when the generator of the first delivery succeeded, the     *)
(* second delivery is a cache hit with no generator call and the response  *)
(* of the first.                                                           *)
(***************************************************************************)
C15_Theorem ==
    Redelivery =>
        /\ lastPipe.key = lastPipe.prev.key
        /\ ~ lastPipe.prev.failed => ReplayedFromCache

\* A message that carries an entity was delivered twice to a conversation
\* that was new at the first delivery, the second time as the TTL ran out.
C15_Witness ==
    /\ Redelivery
    /\ ~ lastPipe.prev.failed
    /\ lastPipe.message = "my customer id is A-2"
    /\ lastPipe.at = lastPipe.prev.at + ttl
    /\ ucontexts[lastPipe.cid].last_updated = lastPipe.prev.at
    /\ lastPipe.cached

(***************************************************************************)
(* agents/dual_role_agent.py: DualRoleAgent.process_message(message, role, *)
(* context_data).  The agent has a graph for each configured role.         *)
(***************************************************************************)
DualMessages == {"hello", "customer id: A-2"}

DualContexts == {NoContext, Dict(<< <<"conversation_id", "c1">> >>)}

\* What agent_graph.stream does: messages, no message, or an exception.
DualOutcomes == {"answer", "empty", "raise"}

\* DualRoleAgent.extract_entity_ids
DualExtractEntityIds(message) ==
    IF message = "customer id: A-2" THEN [customer_id |-> "A-2"] ELSE <<>>

\* context_data["entities"].update(entity_ids), on a context_data that has
\* no entities yet
WithEntities(ctx, ids) ==
    IF ids = <<>> THEN ctx
    ELSE Dict(Append(ctx.items, <<"entities", DictItems(ids)>>))

HasEntities(ctx) == \E i \in DOMAIN ctx.items : ctx.items[i][1] = "entities"

\* f"{role}:{message}", and f":{hash(frozenset(context_data.items()))}"
DualCacheKey(role, message, ctx) ==
    IF Truthy(ctx) THEN <<role, message, <<"hash", Items(ctx)>> >>
    ELSE <<role, message>>

InvalidRoleText == "Invalid role"

\* The result of process_message when agent_graph.stream, if called, does
\* `gen`.  hash() of the items raises TypeError when a value is a dict, and
\* semantic_cache.set(cache_key, response_content, metadata) raises TypeError
\* for its third argument, inside the try of the call.
DualProcess(c, message, role, ctx, gen, t) ==
    LET ids == DualExtractEntityIds(message)
        ctx1 == WithEntities(ctx, ids)
        key == DualCacheKey(role, message, ctx1)
        got == SemanticCacheGet(c, key, t)
    IN  IF role \notin Roles
        THEN [cache |-> c, response |-> InvalidRoleText, raised |-> FALSE,
              cache_read |-> FALSE, generator |-> FALSE, context_data |-> ctx1]
        ELSE IF Truthy(ctx1) /\ HasEntities(ctx1)
        THEN [cache |-> c, response |-> "TypeError", raised |-> TRUE,
              cache_read |-> FALSE, generator |-> FALSE, context_data |-> ctx1]
        ELSE IF got.found
        THEN [cache |-> got.cache, response |-> c[key].value.response,
              raised |-> FALSE, cache_read |-> TRUE, generator |-> FALSE,
              context_data |-> ctx1]
        ELSE [cache |-> got.cache,
              response |-> IF gen = "empty" THEN DefaultText ELSE FallbackText,
              raised |-> FALSE, cache_read |-> TRUE, generator |-> TRUE,
              context_data |-> ctx1]

NoDualCall == [made |-> FALSE]

DualProcessMessage(message, role, ctx, gen) ==
    /\ dualCalls < MaxDualCalls
    /\ LET r == DualProcess(cache, message, role, ctx, gen, now) IN
         /\ cache' = r.cache
         /\ lastDual' = [made |-> TRUE, role |-> role, message |-> message,
                         response |-> r.response, raised |-> r.raised,
                         cache_read |-> r.cache_read, generator |-> r.generator]
    /\ dualCalls' = dualCalls + 1
    /\ UNCHANGED <<now, dualRest>>

\* A request that names a role outside the configured ones.
InvalidDual == lastDual.made /\ lastDual.role \notin Roles

InvalidSetRole == lastU.op = "set_role" /\ lastU.role \notin Roles

C22_RejectStep ==
    /\ (dualCalls' = dualCalls + 1 /\ lastDual'.role \notin Roles) =>
          (cache' = cache /\ ucontexts' = ucontexts)
    /\ (uOps' = uOps + 1 /\ lastU'.op = "set_role" /\ lastU'.role \notin Roles) =>
          (cache' = cache /\ ucontexts' = ucontexts)

SaveOutcomes == {"saved", "not opened", "truncated"}

NoFile == [file |-> "none", contexts |-> <<>>]

\* _save_contexts: the except branch prints and returns.
SaveContexts(d, ctxs, outcome) ==
    CASE outcome = "saved" -> [file |-> "written", contexts |-> ctxs]
      [] outcome = "not opened" -> d
      [] OTHER -> [file |-> "partial", contexts |-> <<>>]

\* process_message with a manager that has a storage_path: the context is
\* saved when it is created and when the extracted entities are merged.
StoreProcessMessage(cid, message, gen, save) ==
    /\ uOps < MaxUtilOps
    /\ LET ids == ExtractEntityIds(message)
           created == cid \notin DOMAIN ucontexts
           c0 == GetConversationContext(ucontexts, cid, now)
           role == c0[cid].role
           c1 == IF ids # <<>> THEN UUpdateEntities(c0, cid, ids, now) ELSE c0
           ctx == SafeContextData(c1[cid])
           agent == SelectAgent(role)
           r == ProcessMessage(cache, agent, message, ctx, gen, now)
           saves == created \/ ids # <<>>
       IN  /\ ucontexts' = c1
           /\ disk' = IF saves THEN SaveContexts(disk, c1, save) ELSE disk
           /\ lastSave' = IF saves THEN save ELSE "none"
           /\ cache' = r.cache
           /\ lastU' = IF ids # <<>>
                       THEN [op |-> "update_entities", cid |-> cid, entities |-> ids]
                       ELSE [op |-> "process_message", cid |-> cid]
           /\ lastPipe' = Delivery(cid, message, TRUE, role, agent, ctx, r, now,
                                   lastPipe)
    /\ uOps' = uOps + 1
    /\ UNCHANGED <<now, storeRest>>

\* set_role with a storage_path.
StoreSetRole(cid, role, save) ==
    /\ uOps < MaxUtilOps
    /\ LET u == USetRole(ucontexts, cid, role, now) IN
       /\ ucontexts' = u.contexts
       /\ disk' = IF u.raised THEN disk ELSE SaveContexts(disk, u.contexts, save)
       /\ lastSave' = IF u.raised THEN "none" ELSE save
       /\ lastU' = [op |-> "set_role", cid |-> cid, role |-> role,
                    raised |-> u.raised]
    /\ lastPipe' = NoDelivery
    /\ uOps' = uOps + 1
    /\ UNCHANGED <<now, cache, storeRest>>

\* clear_context with a storage_path: saved only when the conversation
\* was known.
StoreClearContext(cid, save) ==
    /\ uOps < MaxUtilOps
    /\ ucontexts' = UClearContext(ucontexts, cid)
    /\ disk' = IF cid \in DOMAIN ucontexts
               THEN SaveContexts(disk, UClearContext(ucontexts, cid), save)
               ELSE disk
    /\ lastSave' = IF cid \in DOMAIN ucontexts THEN save ELSE "none"
    /\ lastU' = [op |-> "clear_context", cid |-> cid]
    /\ lastPipe' = NoDelivery
    /\ uOps' = uOps + 1
    /\ UNCHANGED <<now, cache, storeRest>>

StoreTick ==
    /\ now < MaxUtilTime
    /\ now' = now + 1
    /\ UNCHANGED <<cache, uVars, storeVars, storeRest>>

\* The last operation was a delivery during which contexts.json could not
\* be written.
SaveFailed == lastPipe.made /\ lastSave \in {"not opened", "truncated"}

(***************************************************************************)
(* C21: a delivery during which the conversation state could not be saved  *)
(* is aborted with an error: no generator is invoked for it and it does    *)
(* not return a response.                                                  *)
(***************************************************************************)
C21_StoreFailureAborts ==
    SaveFailed => lastPipe.invoked = {} /\ lastPipe.failed

(***************************************************************************)
(* C27: on a cache miss exactly one generator is invoked for the message,  *)
(* the one of the conversation's current role: the sales generator exactly *)
(* when the role is sales and the support generator otherwise, also when   *)
(* no context manager is supplied; the other one is never invoked.  On a   *)
(* cache hit none is invoked.                                              *)
(***************************************************************************)
C27_Theorem ==
    lastPipe.made =>
        /\ lastPipe.role = IF lastPipe.manager
                           THEN ucontexts[lastPipe.cid].role ELSE "support"
        /\ ~ lastPipe.cached =>
              lastPipe.invoked = {IF lastPipe.role = "sales" THEN "sales"
                                  ELSE "support"}
        /\ lastPipe.cached => lastPipe.invoked = {}

\* A conversation whose role was set to sales had a message answered by
\* the generator of the sales agent.
C27_Witness ==
    /\ lastPipe.made
    /\ lastPipe.manager
    /\ lastPipe.role = "sales"
    /\ ~ lastPipe.cached
    /\ lastPipe.invoked = {"sales"}

\* The transition records a context holds.
RoleTransitions(ctxs, cid) ==
    IF cid \in DOMAIN ctxs /\ "role_transitions" \in DOMAIN ctxs[cid]
    THEN ctxs[cid].role_transitions
    ELSE <<>>

\* A step that changes the role of a conversation appends the record of the
\* change, and a step that leaves the role appends nothing.
C19_RoleStep ==
    \A cid \in UConversationIds :
        (cid \in DOMAIN ucontexts /\ cid \in DOMAIN ucontexts') =>
            LET old == ucontexts[cid].role
                new == ucontexts'[cid].role
                before == RoleTransitions(ucontexts, cid)
                after == RoleTransitions(ucontexts', cid)
            IN  IF old = new
                THEN after = before
                ELSE /\ Len(after) = Len(before) + 1
                     /\ SubSeq(after, 1, Len(before)) = before
                     /\ after[Len(after)].from = old
                     /\ after[Len(after)].to = new

(***************************************************************************)
(* C19: over any sequence of role updates of a conversation, by a message  *)
(* or by set_role, one record {from, to, timestamp} is appended to the     *)
(* role transitions exactly when the role after the update differs from    *)
(* the role before it, with from the old and to the new role.              *)
(***************************************************************************)
C19_TransitionsRecorded == [][C19_RoleStep]_vars

EntityOf(ctxs, cid, type) ==
    IF cid \in DOMAIN ctxs /\ type \in DOMAIN ctxs[cid].entities
    THEN ctxs[cid].entities[type]
    ELSE "absent"

\* The entities the step merges into conversation cid.
Extracted(cid) ==
    IF uOps' = uOps + 1 /\ lastU'.op = "update_entities" /\ lastU'.cid = cid
    THEN lastU'.entities
    ELSE <<>>

C20_EntityStep ==
    \A cid \in UConversationIds, type \in EntityTypes :
        (cid \in DOMAIN ucontexts \/ cid \in DOMAIN ucontexts') =>
            IF cid \in DOMAIN ucontexts /\ cid \notin DOMAIN ucontexts'
            THEN uOps' = uOps + 1 /\ lastU' = [op |-> "clear_context", cid |-> cid]
            ELSE EntityOf(ucontexts', cid, type) =
                    IF type \in DOMAIN Extracted(cid)
                    THEN Extracted(cid)[type]
                    ELSE EntityOf(ucontexts, cid, type)

(***************************************************************************)
(* C20: merging extracted entities into a conversation sets every entity   *)
(* type of the extraction to its new value and leaves the other types of   *)
(* the conversation and the entities of every other conversation as they   *)
(* were; a stored entity changes or goes only by an extraction of its type *)
(* or by a reset of its conversation.                                      *)
(***************************************************************************)
C20_Theorem == [][C20_EntityStep]_vars

\* An extraction replaced the customer id of a conversation and left its
\* order id, while another conversation holds entities of its own.
C20_Witness ==
    /\ lastU.op = "update_entities"
    /\ DOMAIN lastU.entities = {"customer_id"}
    /\ EntityOf(ucontexts, lastU.cid, "customer_id") = lastU.entities["customer_id"]
    /\ EntityOf(ucontexts, lastU.cid, "order_id") # "absent"
    /\ \E other \in UConversationIds \ {lastU.cid} :
          EntityOf(ucontexts, other, "order_id") # "absent"

\* The position of a stage in the fixed order; a conversation that has no
\* sales stage yet stands where Initial stands.
StageRank(stage) ==
    IF stage = NoValue THEN 1
    ELSE CHOOSE i \in DOMAIN stages : stages[i] = stage

StageOf(ctxs, cid) ==
    IF cid \in DOMAIN ctxs THEN ctxs[cid].sales_stage ELSE NoValue

IsTie(message) ==
    KeywordCount(message, sales_keywords) = KeywordCount(message, support_keywords)

SalesOnly(message) ==
    /\ KeywordCount(message, sales_keywords) >= 1
    /\ KeywordCount(message, support_keywords) = 0

\* The last call was a message to a conversation that is still stored.
Updated == lastUpdate.made /\ lastUpdate.cid \in DOMAIN contexts

C6_StageStep ==
    \A cid \in ConversationIds :
        cid \in DOMAIN contexts' =>
            StageRank(StageOf(contexts', cid)) - StageRank(StageOf(contexts, cid))
                \in {0, 1}

SalesOnlyNoPrior ==
    /\ Updated
    /\ ~ lastUpdate.known
    /\ lastUpdate.history = <<>>
    /\ SalesOnly(lastUpdate.message)

\* C8 as stated: a message that matches sales keywords only, for a
\* conversation with no prior context, gives role sales and stage Initial.
C8_Original ==
    SalesOnlyNoPrior =>
        /\ contexts[lastUpdate.cid].role = "sales"
        /\ contexts[lastUpdate.cid].sales_stage = "initial"

\* C8: a message that matches sales keywords only, for a conversation with
\* no stored context and no history, gives role sales; the stage is Discovery
\* when the message contains one of the triggers of the Initial stage (what,
\* which, how much, tell me about, options) and Initial otherwise.
C8_Theorem ==
    SalesOnlyNoPrior =>
        /\ contexts[lastUpdate.cid].role = "sales"
        /\ contexts[lastUpdate.cid].sales_stage =
              IF ContainsAny(lastUpdate.message,
                             {"what", "which", "how much", "tell me about", "options"})
              THEN "discovery"
              ELSE "initial"

\* A first message "buy" opened a sales conversation at Initial.
C8_Witness ==
    /\ SalesOnlyNoPrior
    /\ ~ ContainsAny(lastUpdate.message, StageKeywords("initial"))
    /\ contexts[lastUpdate.cid].sales_stage = "initial"

\* The message matches no sales and no support keyword.
NoKeywords(message) ==
    /\ KeywordCount(message, sales_keywords) = 0
    /\ KeywordCount(message, support_keywords) = 0

\* This step handles a message of a conversation that has a context.
MessageToKnown(cid) ==
    /\ cid \in DOMAIN contexts
    /\ cid \in DOMAIN contexts'
    /\ contexts'[cid].messages_count = contexts[cid].messages_count + 1
    /\ lastUpdate'.made
    /\ lastUpdate'.cid = cid

SameRoleStageIssue(cid) ==
    /\ contexts'[cid].role = contexts[cid].role
    /\ contexts'[cid].sales_stage = contexts[cid].sales_stage
    /\ contexts'[cid].support_issue_type = contexts[cid].support_issue_type

\* The message holds no trigger of the stage the conversation is in and no
\* keyword of an issue type.
NoTrigger(message, ctx) ==
    /\ ~ ContainsAny(message, StageKeywords(ctx.sales_stage))
    /\ \A i \in DOMAIN issue_types : ~ ContainsAny(message, issue_types[i][2])

C18_OriginalStep ==
    \A cid \in ConversationIds :
        (MessageToKnown(cid) /\ NoKeywords(lastUpdate'.message))
            => SameRoleStageIssue(cid)

\* C18 as stated: for a conversation that has a context, a message that
\* matches no sales and no support keyword leaves the stored role, sales
\* stage and support issue type as they were.
C18_Original == [][C18_OriginalStep]_vars

C18_AmendedStep ==
    \A cid \in ConversationIds :
        (/\ MessageToKnown(cid)
         /\ NoKeywords(lastUpdate'.message)
         /\ HistoryTrend(lastUpdate'.history) = "none"
         /\ NoTrigger(lastUpdate'.message, contexts[cid]))
            => SameRoleStageIssue(cid)

\* C18: for a conversation that has a context, a message that matches no
\* sales and no support keyword, no trigger of the conversation's sales
\* stage and no issue-type keyword, handed in with a history that shows no
\* trend, leaves the stored role, sales stage and support issue type as
\* they were.
C18_Theorem == [][C18_AmendedStep]_vars

\* A sales conversation past Initial took a message without any keyword
\* and kept its role and stage.
C18_Witness ==
    /\ Updated
    /\ lastUpdate.known
    /\ NoKeywords(lastUpdate.message)
    /\ HistoryTrend(lastUpdate.history) = "none"
    /\ NoTrigger(lastUpdate.message, contexts[lastUpdate.cid])
    /\ lastUpdate.role_before = "sales"
    /\ contexts[lastUpdate.cid].role = "sales"
    /\ contexts[lastUpdate.cid].sales_stage = "discovery"

InitCB ==
    /\ now = 1
    /\ breaker = CircuitBreakerInit
    /\ inside = {}
    /\ cbLog = <<>>
    /\ opCalls = 0

InitRL ==
    /\ requests = <<>>
    /\ rlLog = <<>>

InitWrap ==
    /\ wcb = CircuitBreakerInit
    /\ wpc = "idle"
    /\ attempt = 0
    /\ wrapError = "none"
    /\ wrapTrace = <<>>
    /\ wrapResult = "none"
    /\ wrapCount = 0

InitAgent ==
    /\ cache = <<>>
    /\ lastCall = NoCall
    /\ firstCall = <<>>
    /\ agentCalls = 0

InitCtx ==
    /\ contexts = <<>>
    /\ lastUpdate = [made |-> FALSE]

InitCache ==
    /\ lastOp = NoOp
    /\ lastSet = <<>>
    /\ cacheOps = 0

InitUtil ==
    /\ ucontexts = <<>>
    /\ lastU = [op |-> "none"]
    /\ lastPipe = NoDelivery
    /\ uOps = 0

NoRace == [on |-> FALSE]

InitApi ==
    /\ circuit = "closed"
    /\ calling = {}
    /\ callLog = <<>>

InitDual ==
    /\ lastDual = NoDualCall
    /\ dualCalls = 0

InitStore ==
    /\ disk = NoFile
    /\ lastSave = "none"

InitRace ==
    /\ rlThreads = [c \in Callers |-> IdleThread]
    /\ getter = NoGet
    /\ race = NoRace

Init ==
    /\ InitCB /\ InitRL /\ InitWrap /\ InitAgent /\ InitCtx /\ InitCache
    /\ InitUtil /\ InitApi /\ InitRace /\ InitDual /\ InitStore

NextCB ==
    \/ \E c \in Callers : CBEnter(c)
    \/ \E c \in Callers : CBExitOk(c)
    \/ \E c \in Callers : CBExitFail(c)
    \/ CBTick

SpecCB == Init /\ [][NextCB]_vars

NextRL ==
    \/ RLAllowRequest
    \/ RLTick

SpecRL == Init /\ [][NextRL]_vars

NextWrap ==
    \/ WrapCall
    \/ WrapCircuitCheck
    \/ WrapRateCheck
    \/ WrapFuncReturns
    \/ WrapFuncRaises
    \/ WrapExcept
    \/ WrapSleep
    \/ WrapTick

SpecWrap == Init /\ [][NextWrap]_vars

\* The thread that runs a wrapped call keeps running until the call ends.
SpecWrapFair ==
    /\ SpecWrap
    /\ WF_vars(WrapCircuitCheck)
    /\ WF_vars(WrapRateCheck)
    /\ WF_vars(WrapFuncReturns \/ WrapFuncRaises)
    /\ WF_vars(WrapExcept)
    /\ WF_vars(WrapSleep)

NextAgent ==
    \/ \E role \in Roles, message \in AgentMessages,
          ctx \in ContextDatas, gen \in GeneratorOutcomes :
            AgentProcessMessage(role, message, ctx, gen)
    \/ AgentTick

SpecAgent == Init /\ [][NextAgent]_vars

NextCache ==
    \/ \E key \in CacheKeys : CacheGet(key)
    \/ \E key \in CacheKeys, value \in CacheValues : CacheSet(key, value)
    \/ CacheClear
    \/ CacheTick

SpecCache == Init /\ [][NextCache]_vars

NextRLRace ==
    \/ \E c \in Callers :
            \/ RaceRead(c)
            \/ RaceLoopTest(c)
            \/ RacePop(c)
            \/ RaceCheck(c)
            \/ RaceAppend(c)
    \/ RaceTick

SpecRLRace == Init /\ [][NextRLRace]_vars

NextCacheRace ==
    \/ \E key \in CacheKeys : GetBegin(key)
    \/ GetCheck
    \/ GetDelete
    \/ \E key \in CacheKeys, value \in CacheValues : CacheSet(key, value)
    \/ CacheTick

SpecCacheRace == Init /\ [][NextCacheRace]_vars

NextApi ==
    \E c \in Callers :
        \/ ApiCallBegin(c)
        \/ ApiCallReturns(c)
        \/ ApiCallRaises(c)

SpecApi == Init /\ [][NextApi]_vars

NextDual ==
    \/ \E message \in DualMessages, role \in RequestedRoles,
          ctx \in DualContexts, gen \in DualOutcomes :
            DualProcessMessage(message, role, ctx, gen)
    \/ \E cid \in UConversationIds, role \in RequestedRoles :
            UtilSetRole(cid, role)

SpecDual == Init /\ [][NextDual]_vars

NextCtxRace ==
    \/ \E m1 \in RaceMessages, m2 \in RaceMessages : UpdStart(m1, m2)
    \/ \E th \in UpdateThreads : UpdBegin(th) \/ UpdFinish(th)

SpecCtxRace == Init /\ [][NextCtxRace]_vars

\* The utils manager used directly and through deliveries, two conversations.
NextUtil ==
    \/ \E cid \in UConversationIds, role \in RequestedRoles :
            UtilSetRole(cid, role)
    \/ \E cid \in UConversationIds, message \in UMessages :
            UtilUpdateContext(cid, message)
    \/ \E cid \in UConversationIds, entities \in EntityDicts :
            UtilUpdateEntities(cid, entities)
    \/ \E cid \in UConversationIds : UtilClearContext(cid)
    \/ \E cid \in UConversationIds, message \in PipeMessages, gen \in PipeOutcomes :
            PipeProcessMessage(cid, message, gen)

SpecUtil == Init /\ [][NextUtil]_vars

\* Deliveries to one conversation as time passes, with the operations of the
\* manager that change what a delivery reads.
NextPipe ==
    \/ \E message \in PipeMessages, gen \in PipeOutcomes :
            PipeProcessMessage(PipeConversationId, message, gen)
    \/ \E message \in PipeMessages, gen \in PipeOutcomes :
            PipeProcessMessageNoManager(PipeConversationId, message, gen)
    \/ \E role \in Roles : UtilSetRole(PipeConversationId, role)
    \/ \E message \in UMessages : UtilUpdateContext(PipeConversationId, message)
    \/ UtilClearContext(PipeConversationId)
    \/ UtilTick

SpecPipe == Init /\ [][NextPipe]_vars

\* The pipeline with a manager that writes contexts.json.
NextStore ==
    \/ \E cid \in UConversationIds, message \in PipeMessages,
          gen \in PipeOutcomes, save \in SaveOutcomes :
            StoreProcessMessage(cid, message, gen, save)
    \/ \E cid \in UConversationIds, role \in RequestedRoles, save \in SaveOutcomes :
            StoreSetRole(cid, role, save)
    \/ \E cid \in UConversationIds, save \in SaveOutcomes :
            StoreClearContext(cid, save)
    \/ StoreTick

SpecStore == Init /\ [][NextStore]_vars

NextCtx ==
    \/ \E cid \in ConversationIds, message \in Messages, history \in Histories :
            CtxUpdateContext(cid, message, history)
    \/ \E cid \in ConversationIds : CtxResetContext(cid)
    \/ CtxTick

SpecCtx == Init /\ [][NextCtx]_vars

====
